---- MODULE Spec2Model ----
(***************************************************************************)
(* A model of the background-colour estimators of                          *)
(* background_verification.py and of the contrast / compliance code of     *)
(* wcag_contrast_checker.py.                                               *)
(*                                                                         *)
(* Colours are <<r, g, b>> triples of integers 0..255.  Python's None is   *)
(* the empty tuple.  An image is a record [h, w, px] where px maps every   *)
(* position <<y, x>> (0-based, as numpy indexes image_array[y, x]) to a    *)
(* colour.  np.linalg.norm(d) <= t is compared on the squares, which is    *)
(* exact for integer colour differences and integer thresholds.            *)
(***************************************************************************)
EXTENDS Integers, Sequences, FiniteSets, TLC

VARIABLES
    image,       \* the element screenshot (np.array(image))
    textColor,   \* text_color_rgb
    edges,       \* the positions cv2.Canny marks on this image
    fpBelow,     \* how this build's float arithmetic rounds a result whose
                 \* exact value is an integer: TRUE = just below it
    kmLowFirst,  \* how KMeans numbers its clusters: TRUE = lowest colour first
    step,        \* how many estimators of the batch have run
    results,     \* the batch's result for each estimator
    h5,          \* the candidates and scores of the last method5_hierarchical call
    trueBg,      \* true_bg_rgb of calculate_true_background_luminance
    rng,         \* the state of numpy's global random generator
    calls4,      \* results of successive method4_multi_sampling calls
    threads,     \* the concurrently running estimator calls
    element,     \* a text element: fontSize (in 1/100 px), isBold, language
    ratio,       \* the contrast ratio handed to determine_wcag_compliance, in 1/1000
    verdict,     \* the record determine_wcag_compliance returned
    fails,       \* the estimators whose body raises an exception on this input
    human_rgb,   \* the reference colour of verify_background_detection
    ranking,     \* the sorted results list verify_background_detection returns
    foreground_color,  \* a CSS colour string, as a sequence of characters
    background_color,  \* a second CSS colour string
    contrast,    \* the ratios computed from the two colour strings, in 1/1000
    parsed,      \* the text colour each parsing site derived from foreground_color
    function,    \* which function runs: check_contrast_ratio or
                 \* verify_background_detection
    pc,          \* the statement the running function is at
    driver,      \* the browser driver: unbound, running or quit
    temp_dir,    \* the driver's temporary directory: absent, exists or removed
    log,         \* the calls of driver.quit and cleanup_temp_dir so far, in order
    raised,      \* the exception leaving the function, "" without one
    text_elements,  \* what get_text_elements returned
    page_results,   \* the list results of check_contrast_ratio
    outcomes,    \* what failed while each element was analysed
    final_report \* the report check_contrast_ratio returns, or None

vars == <<image, textColor, edges, fpBelow, kmLowFirst, step, results, h5,
          trueBg, rng, calls4, threads, element, ratio, verdict,
          fails, human_rgb, ranking, foreground_color, background_color,
          contrast, parsed, function, pc, driver, temp_dir, log, raised,
          text_elements, page_results, outcomes, final_report>>

checkVars == <<function, pc, driver, temp_dir, log, raised, text_elements,
               page_results, outcomes, final_report>>

rankVars == <<fails, human_rgb, ranking>>

colourVars == <<foreground_color, background_color, contrast, parsed>>

None == <<>>
Unset == <<-1>>

(***************************************************************************)
(* Bounds of the model.                                                    *)
(***************************************************************************)
\* one-row images 1 x n, n <= MaxStrip, are enumerated with every colouring
MaxStrip == 4
\* points drawn by the random pass of method4_multi_sampling (range(100) in
\* the code), followed draw by draw
RandomDraws == 3
\* successive calls of method4_multi_sampling that are compared
MaxCalls == 2

(***************************************************************************)
(* Arithmetic helpers.                                                     *)
(***************************************************************************)
Min(a, b) == IF a <= b THEN a ELSE b
Max(a, b) == IF a >= b THEN a ELSE b
Abs(a) == IF a >= 0 THEN a ELSE -a

RECURSIVE SumTo(_, _)
SumTo(f, n) == IF n = 0 THEN 0 ELSE f[n] + SumTo(f, n - 1)

\* the sum of a sequence of integers
SumSeq(s) == SumTo(s, Len(s))

\* the k-th smallest entry (k from 1) of a non-empty sequence of integers
KthSmallest(vals, k) ==
    CHOOSE v \in {vals[i] : i \in DOMAIN vals} :
        /\ Cardinality({i \in DOMAIN vals : vals[i] <= v}) >= k
        /\ Cardinality({i \in DOMAIN vals : vals[i] < v}) < k

\* int(np.median(vals)): the middle entry, or the mean of the two middle
\* entries truncated
MedianInt(vals) ==
    LET n == Len(vals)
    IN  IF n % 2 = 1
        THEN KthSmallest(vals, (n + 1) \div 2)
        ELSE (KthSmallest(vals, n \div 2) + KthSmallest(vals, n \div 2 + 1)) \div 2

Channel(pixels, c) == [i \in DOMAIN pixels |-> pixels[i][c]]

\* tuple(int(x) for x in np.median(pixels, axis=0))
MedianColor(pixels) ==
    <<MedianInt(Channel(pixels, 1)), MedianInt(Channel(pixels, 2)),
      MedianInt(Channel(pixels, 3))>>

\* tuple(int(x) for x in np.mean(pixels, axis=0)): integer sums are exact
MeanColor(pixels) ==
    <<SumSeq(Channel(pixels, 1)) \div Len(pixels),
      SumSeq(Channel(pixels, 2)) \div Len(pixels),
      SumSeq(Channel(pixels, 3)) \div Len(pixels)>>

(***************************************************************************)
(* Images.                                                                 *)
(***************************************************************************)
Pos(h, w) == (0 .. (h - 1)) \X (0 .. (w - 1))

NumPixels(img) == img.h * img.w

\* the positions in row-major order, the order of reshape(-1, 3) and of
\* boolean indexing
PosSeq(img) ==
    [i \in 1 .. NumPixels(img) |-> <<(i - 1) \div img.w, (i - 1) % img.w>>]

\* image_array.reshape(-1, 3)
AllPixels(img) == [i \in 1 .. NumPixels(img) |-> img.px[PosSeq(img)[i]]]

\* image_array[keep] for a boolean grid keep
PixelsWhere(img, keep) ==
    LET ps == SelectSeq(PosSeq(img), LAMBDA p : keep[p])
    IN  [i \in DOMAIN ps |-> img.px[ps[i]]]

(***************************************************************************)
(* Masking.                                                                *)
(***************************************************************************)
DistSq(p, q) ==
    (p[1] - q[1]) * (p[1] - q[1]) + (p[2] - q[2]) * (p[2] - q[2])
        + (p[3] - q[3]) * (p[3] - q[3])

\* the mask with a strict comparison
create_enhanced_text_mask_strict(img, text_color_rgb, threshold) ==
    [p \in DOMAIN img.px |->
        DistSq(img.px[p], text_color_rgb) < threshold * threshold]

\* distances <= threshold, per pixel: TRUE marks a text pixel
create_enhanced_text_mask(img, text_color_rgb, threshold) ==
    [p \in DOMAIN img.px |->
        DistSq(img.px[p], text_color_rgb) <= threshold * threshold]

\* the background test passing a pixel at distance threshold
is_background_pixel_inclusive(pixel, text_color_rgb, threshold) ==
    DistSq(pixel, text_color_rgb) >= threshold * threshold

\* distance > threshold
is_background_pixel(pixel, text_color_rgb, threshold) ==
    DistSq(pixel, text_color_rgb) > threshold * threshold

\* image_array[~text_mask].reshape(-1, 3)
exclude_text_pixels(img, text_color_rgb, threshold) ==
    LET text_mask == create_enhanced_text_mask(img, text_color_rgb, threshold)
    IN  PixelsWhere(img, [p \in DOMAIN img.px |-> ~text_mask[p]])

(***************************************************************************)
(* Library calls.  cv2.Canny, sklearn's KMeans and the float arithmetic    *)
(* of numpy are not code of the repository; the model keeps what holds of  *)
(* every build and leaves the rest to the inputs edges, kmLowFirst and     *)
(* fpBelow, which are fixed for a run.                                     *)
(***************************************************************************)
Clamp(v, lo, hi) == Max(lo, Min(v, hi))

\* A pixel whose 3 x 3 neighbourhood (border replicated) is one colour has a
\* zero Sobel gradient, so cv2.Canny never marks it.
EdgeCandidates(img) ==
    {p \in DOMAIN img.px :
        \E dy \in -1 .. 1, dx \in -1 .. 1 :
            img.px[<<Clamp(p[1] + dy, 0, img.h - 1),
                     Clamp(p[2] + dx, 0, img.w - 1)>>] # img.px[p]}

\* what cv2.Canny(gray, 50, 150) may return: a set of candidate pixels
CannyOutcomes(img) ==
    LET cand == EdgeCandidates(img)
    IN  IF Cardinality(cand) <= 3 THEN SUBSET cand ELSE {{}, cand}

\* cv2.dilate(edges, np.ones((5, 5)), iterations=2) as a boolean grid: two
\* passes of a 5 x 5 square reach 4 pixels in each direction
edge_dilated(img, canny) ==
    [p \in DOMAIN img.px |->
        \E q \in canny : Abs(p[1] - q[1]) <= 4 /\ Abs(p[2] - q[2]) <= 4]

\* int(x) of a float x that was computed inexactly and whose exact value is
\* the integer v
TruncInexact(v, fp) == IF fp /\ v >= 1 THEN v - 1 ELSE v

ColourKey(c) == (c[1] * 256 + c[2]) * 256 + c[3]

Distinct(pixels) == {pixels[i] : i \in DOMAIN pixels}

Occurrences(pixels, c) == Cardinality({i \in DOMAIN pixels : pixels[i] = c})

\* the inertia that merging the colour classes a and b into one cluster adds:
\* n_a * n_b / (n_a + n_b) * |a - b|^2
MergeCost(pixels, a, b) ==
    (Occurrences(pixels, a) * Occurrences(pixels, b) * DistSq(a, b))
        \div (Occurrences(pixels, a) + Occurrences(pixels, b))

\* KMeans(n_clusters, random_state=42, n_init=10).fit(pixels): the clusters,
\* each as the set of colours in it.  With no more distinct colours than
\* clusters the clusters are the colour classes; with one colour more (the
\* images of the model have no more) the partition of least inertia merges
\* the two classes that are cheapest to merge.
KMeansClusters(pixels, n_clusters) ==
    LET cols == Distinct(pixels)
        pairs == {pr \in SUBSET cols : Cardinality(pr) = 2}
        cost(pr) == LET a == CHOOSE c \in pr : TRUE
                        b == CHOOSE c \in pr : c # a
                    IN  MergeCost(pixels, a, b)
        merged == CHOOSE pr \in pairs : \A qr \in pairs : cost(pr) <= cost(qr)
    IN  IF Cardinality(cols) <= n_clusters THEN {{c} : c \in cols}
        ELSE {{c} : c \in cols \ merged} \cup {merged}

\* np.bincount(labels_)[cluster]
ClusterSize(pixels, cluster) ==
    Cardinality({i \in DOMAIN pixels : pixels[i] \in cluster})

\* the cluster np.argmax(np.bincount(labels_)) picks: a largest one, on a tie
\* the one KMeans numbered lowest
LargestCluster(pixels, n_clusters, lowFirst) ==
    LET clusters == KMeansClusters(pixels, n_clusters)
        key(g) == LET lo == CHOOSE c \in g : \A d \in g : ColourKey(c) <= ColourKey(d)
                  IN  ColourKey(lo)
        most == {g \in clusters :
                    \A f \in clusters : ClusterSize(pixels, f) <= ClusterSize(pixels, g)}
    IN  CHOOSE g \in most :
            \A f \in most : IF lowFirst THEN key(g) <= key(f) ELSE key(g) >= key(f)

\* the sum over the pixels of a cluster of channel k
ClusterChannelSum(pixels, cluster, k) ==
    SumSeq([i \in DOMAIN pixels |-> IF pixels[i] \in cluster THEN pixels[i][k] ELSE 0])

\* KMeans(...).fit(pixels), then the centre of the largest cluster as
\* tuple(int(x)).  The centres are computed on mean-centred floats, so a
\* centre channel whose exact value is an integer is inexact unless the
\* channel is the same in every pixel.
KMeansDominant(pixels, n_clusters, lowFirst, fp) ==
    LET cols == Distinct(pixels)
        big  == LargestCluster(pixels, n_clusters, lowFirst)
        n    == ClusterSize(pixels, big)
        chan(k) == LET total == ClusterChannelSum(pixels, big, k)
                   IN  IF total % n # 0 THEN total \div n
                       ELSE IF \A d \in cols : d[k] = total \div n THEN total \div n
                       ELSE TruncInexact(total \div n, fp)
    IN  <<chan(1), chan(2), chan(3)>>

(***************************************************************************)
(* Method 1: dominant clustering.                                          *)
(***************************************************************************)
\* method 1 giving up only when no background pixel is left
method1_any_background(img, text_color_rgb, lowFirst, fp) ==
    LET background_pixels == exclude_text_pixels(img, text_color_rgb, 50)
    IN  IF Len(background_pixels) < 1 THEN None
        ELSE KMeansDominant(background_pixels,
                            Min(4, Len(background_pixels)), lowFirst, fp)

\* n_clusters of method 1; 0: KMeans is not called
method1_n_clusters(img, text_color_rgb) ==
    LET background_pixels == exclude_text_pixels(img, text_color_rgb, 50)
    IN  IF Len(background_pixels) < 10 THEN 0 ELSE Min(4, Len(background_pixels))

method1_dominant_clustering(img, text_color_rgb, lowFirst, fp) ==
    LET background_pixels == exclude_text_pixels(img, text_color_rgb, 50)
    IN  IF Len(background_pixels) < 10 THEN None
        ELSE KMeansDominant(background_pixels,
                            method1_n_clusters(img, text_color_rgb), lowFirst, fp)

(***************************************************************************)
(* The same algorithm in wcag_contrast_checker.py (the colour it returns). *)
(***************************************************************************)
\* wcag_contrast_checker.py's own create_enhanced_text_mask
wcag_create_enhanced_text_mask(img, text_color_rgb, threshold) ==
    [p \in DOMAIN img.px |->
        DistSq(img.px[p], text_color_rgb) <= threshold * threshold]

\* background_pixels of calculate_true_background_luminance
true_bg_background_pixels(img, text_color_rgb) ==
    LET text_mask == wcag_create_enhanced_text_mask(img, text_color_rgb, 50)
        masked == PixelsWhere(img, [p \in DOMAIN img.px |-> ~text_mask[p]])
    IN  IF Len(masked) < 10 THEN AllPixels(img) ELSE masked

\* n_clusters without the count of unique colours
true_bg_n_clusters_by_pixels(img, text_color_rgb) ==
    Min(4, Len(true_bg_background_pixels(img, text_color_rgb)))

\* n_clusters of calculate_true_background_luminance; 0: KMeans is not called
true_bg_n_clusters(img, text_color_rgb) ==
    LET background_pixels == true_bg_background_pixels(img, text_color_rgb)
        n_unique == Cardinality(Distinct(background_pixels))
    IN  IF n_unique <= 1 THEN 0
        ELSE Min(4, Min(n_unique, Len(background_pixels)))

calculate_true_background_rgb(img, text_color_rgb, lowFirst, fp) ==
    LET background_pixels == true_bg_background_pixels(img, text_color_rgb)
        unique_colors == Distinct(background_pixels)
        n_clusters == true_bg_n_clusters(img, text_color_rgb)
    IN  IF n_clusters = 0
        THEN CHOOSE c \in unique_colors : TRUE
        ELSE KMeansDominant(background_pixels, n_clusters, lowFirst, fp)

(***************************************************************************)
(* Method 2: spatially weighted average.                                   *)
(***************************************************************************)
FixedOne == 2 ^ 12

RECURSIVE ExpHorner(_, _, _, _)
ExpHorner(a, b, k, v) ==
    IF k = 0 THEN v ELSE ExpHorner(a, b, k - 1, FixedOne - (a * v) \div (b * k))

\* np.exp(-a / b) in fixed point (12 fractional bits), 0 <= a / b <= 2
ExpNeg(a, b) == ExpHorner(a, b, 12, FixedOne)

\* the same weight for every pixel
weights_uniform(img, p) == FixedOne

\* weights[p]: exp(-2 * (distance_map / max_distance) ** 2), or 1 when
\* max_distance is 0
weights(img, p) ==
    LET center_y == img.h \div 2
        center_x == img.w \div 2
        dsq == (p[1] - center_y) * (p[1] - center_y)
                    + (p[2] - center_x) * (p[2] - center_x)
        max_sq == center_y * center_y + center_x * center_x
    IN  IF max_sq > 0 THEN ExpNeg(2 * dsq, max_sq) ELSE FixedOne

method2_spatial_weighted(img, text_color_rgb, fp) ==
    LET center_y == img.h \div 2
        center_x == img.w \div 2
        dsq(p) == (p[1] - center_y) * (p[1] - center_y)
                    + (p[2] - center_x) * (p[2] - center_x)
        max_sq == center_y * center_y + center_x * center_x
        text_mask == create_enhanced_text_mask(img, text_color_rgb, 45)
        bg == SelectSeq(PosSeq(img), LAMBDA p : ~text_mask[p])
        scl == SumSeq([i \in DOMAIN bg |-> weights(img, bg[i])])
        inexact == \E i \in DOMAIN bg : max_sq > 0 /\ dsq(bg[i]) > 0
        avg(c) ==
            LET tot == SumSeq([i \in DOMAIN bg |-> weights(img, bg[i]) * img.px[bg[i]][c]])
            IN  IF tot % scl = 0 /\ inexact
                THEN TruncInexact(tot \div scl, fp)
                ELSE tot \div scl
    IN  IF Len(bg) = 0 THEN None ELSE <<avg(1), avg(2), avg(3)>>

(***************************************************************************)
(* Method 3: core region.                                                  *)
(***************************************************************************)
\* method 3 without the text mask
method3_edges_only(img, text_color_rgb, canny) ==
    LET dilated == edge_dilated(img, canny)
        core_pixels == PixelsWhere(img, [p \in DOMAIN img.px |-> ~dilated[p]])
    IN  IF Len(core_pixels) = 0 THEN None ELSE MedianColor(core_pixels)

\* method 3 without the edge mask
method3_text_only(img, text_color_rgb, canny) ==
    LET text_mask == create_enhanced_text_mask(img, text_color_rgb, 45)
        core_pixels == PixelsWhere(img, [p \in DOMAIN img.px |-> ~text_mask[p]])
    IN  IF Len(core_pixels) = 0 THEN None ELSE MedianColor(core_pixels)

method3_core_region(img, text_color_rgb, canny) ==
    LET dilated == edge_dilated(img, canny)
        text_mask == create_enhanced_text_mask(img, text_color_rgb, 45)
        core_mask == [p \in DOMAIN img.px |-> ~(dilated[p] \/ text_mask[p])]
        core_pixels == PixelsWhere(img, core_mask)
    IN  IF Len(core_pixels) = 0 THEN None ELSE MedianColor(core_pixels)

(***************************************************************************)
(* numpy's global random generator: a state, set by np.random.seed and     *)
(* advanced by every np.random.randint.  The generator itself is a small   *)
(* full-period congruential generator standing for numpy's.                *)
(***************************************************************************)
RngStates == 0 .. 63

\* a call that leaves the generator as it found it
np_random_unseeded(s) == s

\* np.random.seed(42), applied to generator state s
np_random_seed(s) == 42 % 64

RngNext(s) == (37 * s + 11) % 64

\* the value np.random.randint(0, n) returns when it leaves the state s
RandIntValue(s, n) == (s \div 4) % n

RECURSIVE RngAdvance(_, _)
RngAdvance(s, k) == IF k = 0 THEN s ELSE RngAdvance(RngNext(s), k - 1)

(***************************************************************************)
(* Method 4: multi sampling.                                               *)
(***************************************************************************)
\* list(range(a, b, st))
RangeSeq(a, b, st) ==
    LET n == IF b > a THEN (b - a + st - 1) \div st ELSE 0
    IN  [i \in 1 .. n |-> a + (i - 1) * st]

\* a grid over the whole image
GridPositionsWhole(img) ==
    LET ys == RangeSeq(0, img.h, Max(1, img.h \div 8))
        xs == RangeSeq(0, img.w, Max(1, img.w \div 8))
    IN  [i \in 1 .. (Len(ys) * Len(xs)) |->
            <<ys[((i - 1) \div Len(xs)) + 1], xs[((i - 1) % Len(xs)) + 1]>>]

\* pass 1: the grid positions, y outer, x inner
GridPositions(img) ==
    LET ys == RangeSeq(img.h \div 4, (3 * img.h) \div 4, Max(1, img.h \div 8))
        xs == RangeSeq(img.w \div 4, (3 * img.w) \div 4, Max(1, img.w \div 8))
        all == [i \in 1 .. (Len(ys) * Len(xs)) |->
                    <<ys[((i - 1) \div Len(xs)) + 1], xs[((i - 1) % Len(xs)) + 1]>>]
    IN  SelectSeq(all, LAMBDA p : 0 <= p[1] /\ p[1] < img.h /\ 0 <= p[2] /\ p[2] < img.w)

\* pass 2: the k-th point (k from 1) drawn after the generator was in state s:
\* y first, then x
RandomPosition(img, s, k) ==
    LET sy == RngAdvance(s, 2 * k - 1)
        sx == RngNext(sy)
    IN  <<RandIntValue(sy, img.h), RandIntValue(sx, img.w)>>

RandomPositions(img, s) == [k \in 1 .. RandomDraws |-> RandomPosition(img, s, k)]

\* 10^6 * sin and cos of np.linspace(0, 2 * pi, 16)
SinTable ==
    <<0, 406737, 743145, 951057, 994522, 866025, 587785, 207912,
      -207912, -587785, -866025, -994522, -951057, -743145, -406737, 0>>
CosTable ==
    <<1000000, 913545, 669131, 309017, -104528, -500000, -809017, -978148,
      -978148, -809017, -500000, -104528, 309017, 669131, 913545, 1000000>>

\* pass 3: int(cy + radius * sin(angle)), int(cx + radius * cos(angle)).  The
\* floats sin(2 * pi) and cos(4 * pi / 3) are not the exact 0 and -1/2: where
\* the exact coordinate is an integer the float may fall just below it.
CirclePositions(img, fp) ==
    LET cy == img.h \div 2
        cx == img.w \div 2
        radius == Min(img.h, img.w) \div 4
        y(i) == IF i = 16 THEN TruncInexact(cy, fp)
                ELSE (cy * 1000000 + radius * SinTable[i]) \div 1000000
        x(i) == IF i = 11 /\ radius % 2 = 0
                THEN TruncInexact(cx - radius \div 2, fp)
                ELSE (cx * 1000000 + radius * CosTable[i]) \div 1000000
        all == [i \in 1 .. 16 |-> <<y(i), x(i)>>]
    IN  IF radius > 0
        THEN SelectSeq(all, LAMBDA p : 0 <= p[1] /\ p[1] < img.h
                                        /\ 0 <= p[2] /\ p[2] < img.w)
        ELSE <<>>

\* the pixels at the positions ps that pass the background test
KeptSamples(img, text_color_rgb, ps) ==
    LET kept == SelectSeq(ps, LAMBDA p : is_background_pixel(img.px[p], text_color_rgb, 45))
    IN  [i \in DOMAIN kept |-> img.px[kept[i]]]

\* the end of the method: None for an empty pool, else the median per channel
Method4Result(all_samples) ==
    IF Len(all_samples) = 0 THEN None ELSE MedianColor(all_samples)

\* the whole call, entered with the global generator in state s
method4_multi_sampling(img, text_color_rgb, fp, s) ==
    Method4Result(KeptSamples(img, text_color_rgb, GridPositions(img))
        \o KeptSamples(img, text_color_rgb, RandomPositions(img, np_random_seed(s)))
        \o KeptSamples(img, text_color_rgb, CirclePositions(img, fp)))

\* the state the call leaves the global generator in
Method4RngAfter(s) == RngAdvance(np_random_seed(s), 2 * RandomDraws)

(***************************************************************************)
(* Method 5: hierarchical.                                                 *)
(***************************************************************************)
\* the bin of np.histogramdd(bins=16, range=(0, 255)) a channel value falls in
BinOf(v) == IF v = 255 THEN 15 ELSE (v * 16) \div 255

\* int((edges[i] + edges[i + 1]) / 2)
BinCenter(i) == ((2 * i + 1) * 255) \div 32

\* the index of a pixel's bin in the flattened histogram
BinIndex(c) == (BinOf(c[1]) * 16 + BinOf(c[2])) * 16 + BinOf(c[3])

\* np.argmax(hist_3d): the fullest bin, the first of them in flattened order
get_dominant_color_from_hist(img) ==
    LET pixels == AllPixels(img)
        count(b) == Cardinality({i \in DOMAIN pixels : BinIndex(pixels[i]) = b})
        bins == {BinIndex(pixels[i]) : i \in DOMAIN pixels}
        best == CHOOSE b \in bins :
                    \A c \in bins : count(c) < count(b) \/ (count(c) = count(b) /\ b <= c)
    IN  <<BinCenter(best \div 256), BinCenter((best \div 16) % 16), BinCenter(best % 16)>>

\* the confidence counting pixels at distance 30 too
calculate_confidence_inclusive(bg_color, img) ==
    IF bg_color = None THEN [num |-> 0, den |-> 1]
    ELSE [num |-> Cardinality({p \in DOMAIN img.px : DistSq(img.px[p], bg_color) <= 30 * 30}),
          den |-> NumPixels(img)]

\* similar_pixels / len(pixels) as the fraction [num, den]; 0.0 for None
calculate_confidence(bg_color, img) ==
    IF bg_color = None THEN [num |-> 0, den |-> 1]
    ELSE [num |-> Cardinality({p \in DOMAIN img.px : DistSq(img.px[p], bg_color) < 30 * 30}),
          den |-> NumPixels(img)]

ScoreLess(a, b) == a.num * b.den < b.num * a.den

RECURSIVE ArgMaxLastFrom(_, _, _)
ArgMaxLastFrom(scores, i, best) ==
    IF i > Len(scores) THEN best
    ELSE ArgMaxLastFrom(scores, i + 1,
                        IF ScoreLess(scores[i], scores[best]) THEN best ELSE i)

RECURSIVE ArgMaxFrom(_, _, _)
ArgMaxFrom(scores, i, best) ==
    IF i > Len(scores) THEN best
    ELSE ArgMaxFrom(scores, i + 1,
                    IF ScoreLess(scores[best], scores[i]) THEN i ELSE best)

\* a scan that keeps the last of equal maxima
np_argmax_last(scores) == ArgMaxLastFrom(scores, 2, 1)

\* np.argmax(scores): a scan that keeps the first of equal maxima
np_argmax(scores) == ArgMaxFrom(scores, 2, 1)

\* level 2 taking the mean from 100 pixels on
medium_level_from_100(text_excluded, coarse_bg) ==
    IF Len(text_excluded) >= 100 THEN MeanColor(text_excluded) ELSE coarse_bg

\* level 2: the mean of the pixels that are not text, or the coarse colour
medium_level(text_excluded, coarse_bg) ==
    IF Len(text_excluded) > 100 THEN MeanColor(text_excluded) ELSE coarse_bg

\* the call with its intermediate values; final_bg is what it returns
method5_hierarchical(img, text_color_rgb, canny) ==
    LET coarse_bg == get_dominant_color_from_hist(img)
        text_excluded == exclude_text_pixels(img, text_color_rgb, 40)
        medium_bg == medium_level(text_excluded, coarse_bg)
        core == method3_core_region(img, text_color_rgb, canny)
        clean_bg == IF core = None THEN medium_bg ELSE core
        cands == <<clean_bg, medium_bg, coarse_bg>>
        confidence_scores == [i \in 1 .. 3 |-> calculate_confidence(cands[i], img)]
        best_method == np_argmax(confidence_scores)
    IN  [core |-> core, clean_bg |-> clean_bg, medium_bg |-> medium_bg,
         coarse_bg |-> coarse_bg, confidence_scores |-> confidence_scores,
         best_method |-> best_method, final_bg |-> cands[best_method]]

(***************************************************************************)
(* The inputs of the model.                                                *)
(***************************************************************************)
TextColors == {<<0, 0, 0>>, <<255, 255, 255>>}

\* colours at distance 0, 5.2, 40, 45, 50, 51 and more from black
Palette ==
    {<<0, 0, 0>>, <<3, 3, 3>>, <<40, 0, 0>>, <<0, 45, 0>>, <<30, 40, 0>>,
     <<0, 0, 51>>, <<200, 200, 200>>, <<255, 255, 255>>}

StripPalette == {<<0, 0, 0>>, <<30, 40, 0>>, <<200, 200, 200>>}

\* <<h, w>> of the larger images: 9, 10, 12, 16, 64, 100 and 110 pixels
Sizes == {<<2, 2>>, <<3, 3>>, <<2, 5>>, <<3, 4>>, <<4, 4>>, <<8, 8>>, <<10, 10>>, <<11, 10>>}

\* a first and a second colour of a two-colour image
ColourPairs ==
    {<<<<200, 200, 200>>, <<0, 0, 0>>>>, <<<<200, 200, 200>>, <<210, 200, 200>>>>,
     <<<<30, 40, 0>>, <<0, 0, 51>>>>, <<<<255, 255, 255>>, <<0, 45, 0>>>>,
     <<<<40, 0, 0>>, <<200, 200, 200>>>>}

StripImages ==
    UNION {{[h |-> 1, w |-> n, px |-> f] : f \in [Pos(1, n) -> StripPalette]} :
              n \in 1 .. MaxStrip}

UniformImage(h, w, c) == [h |-> h, w |-> w, px |-> [p \in Pos(h, w) |-> c]]

\* columns left of k in the first colour, the others in the second
SplitImage(h, w, k, cc) ==
    [h |-> h, w |-> w, px |-> [p \in Pos(h, w) |-> IF p[2] < k THEN cc[1] ELSE cc[2]]]

\* the first colour with the centre pixel in the second
SpotImage(h, w, cc) ==
    [h |-> h, w |-> w,
     px |-> [p \in Pos(h, w) |-> IF p = <<h \div 2, w \div 2>> THEN cc[2] ELSE cc[1]]]

\* 4 x 4: three far colours, then n pixels of (100,100,100), the other
\* 13 - n pixels (101,101,101)
FiveColourImage(n) ==
    [h |-> 4, w |-> 4,
     px |-> [p \in Pos(4, 4) |->
                LET i == 4 * p[1] + p[2]
                IN  CASE i = 0 -> <<200, 0, 0>>
                      [] i = 1 -> <<0, 200, 0>>
                      [] i = 2 -> <<0, 0, 200>>
                      [] i >= 3 /\ i < 3 + n -> <<100, 100, 100>>
                      [] OTHER -> <<101, 101, 101>>]]

Images ==
    StripImages
    \cup {FiveColourImage(4), FiveColourImage(9)}
    \cup {SpotImage(4, 4, <<<<200, 200, 200>>, <<230, 200, 200>>>>),
          SplitImage(2, 5, 2, <<<<210, 180, 180>>, <<200, 200, 200>>>>)}
    \cup {UniformImage(s[1], s[2], c) : s \in Sizes, c \in Palette}
    \cup {SplitImage(s[1], s[2], k, cc) :
              s \in Sizes, k \in {1, 2}, cc \in ColourPairs}
    \cup {SpotImage(s[1], s[2], cc) : s \in Sizes, cc \in ColourPairs}

H5None ==
    [core |-> None, clean_bg |-> None, medium_bg |-> None, coarse_bg |-> None,
     confidence_scores |-> <<>>, best_method |-> 0, final_bg |-> None]

NoElement == [fontSize |-> 0, isBold |-> FALSE, language |-> ""]

NoVerdict ==
    [is_compliant |-> FALSE, required_ratio |-> 0, actual_ratio |-> 0,
     situation |-> "", is_large_text |-> FALSE, font_size_pt |-> 0]

\* an image with its text colour and what the libraries do on it
InputInit(imgs) ==
    /\ image \in imgs
    /\ textColor \in TextColors
    /\ edges \in CannyOutcomes(image)
    /\ fpBelow \in BOOLEAN
    /\ kmLowFirst \in BOOLEAN

BatchIdle ==
    /\ step = 0
    /\ results = [m \in 1 .. 5 |-> Unset]
    /\ h5 = H5None
    /\ trueBg = Unset

RepeatIdle == calls4 = <<>>

ThreadsIdle == threads = <<>>

WcagIdle ==
    /\ element = NoElement
    /\ ratio = 0
    /\ verdict = NoVerdict

\* improved_contrast_ratio is <<ratio>>, or None
NoContrast ==
    [fg_luminance |-> -1, bg_luminance |-> -1, contrast_ratio |-> -1,
     true_bg_luminance |-> Unset, improved_contrast_ratio |-> Unset]

NoParsed == [element_text_color |-> Unset, text_rgb |-> Unset]

ColourIdle ==
    /\ foreground_color = <<>>
    /\ background_color = <<>>
    /\ contrast = NoContrast
    /\ parsed = NoParsed

CheckIdle ==
    /\ function = ""
    /\ pc = "idle"
    /\ driver = "unbound"
    /\ temp_dir = "absent"
    /\ log = <<>>
    /\ raised = ""
    /\ text_elements = <<>>
    /\ page_results = <<>>
    /\ outcomes = <<>>
    /\ final_report = None

RankIdle ==
    /\ fails = {}
    /\ human_rgb = <<255, 255, 255>>
    /\ ranking = <<>>

(***************************************************************************)
(* The batch of verify_background_detection: the five estimators in the    *)
(* order of the methods dict, on one image.                                *)
(***************************************************************************)
\* try: ... except Exception: return None, around the body of an estimator.
\* An estimator in fails raises at its first statements, before it touches
\* the random generator.
Uncontained(m, value) == IF m \in fails THEN Unset ELSE value

Contained(m, value) == IF m \in fails THEN None ELSE value

\* float('inf'), above every squared distance of two colours
Infinity == 3 * 256 * 256

\* np.linalg.norm of the difference, kept as its square: the order and the
\* ties of the squares are those of the norms
calculate_color_distance(color1, color2) ==
    IF color1 = None \/ color2 = None THEN Infinity ELSE DistSq(color1, color2)

\* results.append({...}) for the five methods in the order of the dict
ResultsList ==
    [m \in 1 .. 5 |->
        [method |-> m, rgb |-> results[m],
         distance |-> calculate_color_distance(results[m], human_rgb)]]

RECURSIVE InsertByDistance(_, _, _)
\* e placed into the sorted list behind every entry that is not farther
\* (strict = FALSE) or before the first entry that is not nearer (strict = TRUE)
InsertByDistance(e, sorted, strict) ==
    IF sorted = <<>> THEN <<e>>
    ELSE IF (IF strict THEN e.distance <= Head(sorted).distance
                       ELSE e.distance < Head(sorted).distance)
         THEN <<e>> \o sorted
         ELSE <<Head(sorted)>> \o InsertByDistance(e, Tail(sorted), strict)

RECURSIVE SortFrom(_, _, _, _)
SortFrom(list, i, sorted, strict) ==
    IF i > Len(list) THEN sorted
    ELSE SortFrom(list, i + 1, InsertByDistance(list[i], sorted, strict), strict)

\* a sort that does not keep the order of equal keys
list_sort_reversing_ties(list) == SortFrom(list, 1, <<>>, TRUE)

\* results.sort(key=lambda x: x['distance'])
list_sort(list) == SortFrom(list, 1, <<>>, FALSE)

BatchUnchanged ==
    UNCHANGED <<image, textColor, edges, fpBelow, kmLowFirst, calls4, threads,
                element, ratio, verdict, fails, human_rgb, colourVars, checkVars>>

RunMethod1 ==
    /\ step = 0
    /\ results' = [results EXCEPT
                     ![1] = Contained(1, method1_dominant_clustering(image, textColor, kmLowFirst, fpBelow))]
    /\ step' = 1
    /\ UNCHANGED <<h5, trueBg, rng, ranking>>
    /\ BatchUnchanged

RunMethod2 ==
    /\ step = 1
    /\ results' = [results EXCEPT
                     ![2] = Contained(2, method2_spatial_weighted(image, textColor, fpBelow))]
    /\ step' = 2
    /\ UNCHANGED <<h5, trueBg, rng, ranking>>
    /\ BatchUnchanged

RunMethod3 ==
    /\ step = 2
    /\ results' = [results EXCEPT
                     ![3] = Contained(3, method3_core_region(image, textColor, edges))]
    /\ step' = 3
    /\ UNCHANGED <<h5, trueBg, rng, ranking>>
    /\ BatchUnchanged

RunMethod4 ==
    /\ step = 3
    /\ results' = [results EXCEPT
                     ![4] = Contained(4, method4_multi_sampling(image, textColor, fpBelow, rng))]
    /\ rng' = IF 4 \in fails THEN rng ELSE Method4RngAfter(rng)
    /\ step' = 4
    /\ UNCHANGED <<h5, trueBg, ranking>>
    /\ BatchUnchanged

RunMethod5 ==
    /\ step = 4
    /\ h5' = IF 5 \in fails THEN H5None ELSE method5_hierarchical(image, textColor, edges)
    /\ results' = [results EXCEPT ![5] = Contained(5, h5'.final_bg)]
    /\ step' = 5
    /\ UNCHANGED <<trueBg, rng, ranking>>
    /\ BatchUnchanged

\* calculate_true_background_luminance of wcag_contrast_checker.py on the
\* same image
RunTrueBackground ==
    /\ trueBg = Unset
    /\ trueBg' = calculate_true_background_rgb(image, textColor, kmLowFirst, fpBelow)
    /\ UNCHANGED <<step, results, h5, rng, ranking>>
    /\ BatchUnchanged

\* the sort that ends the batch
Rank ==
    /\ step = 5
    /\ ranking' = list_sort(ResultsList)
    /\ step' = 6
    /\ UNCHANGED <<results, h5, trueBg, rng>>
    /\ BatchUnchanged

Init ==
    /\ InputInit(Images)
    /\ rng = 0
    /\ BatchIdle
    /\ RepeatIdle
    /\ ThreadsIdle
    /\ CheckIdle
    /\ WcagIdle
    /\ RankIdle
    /\ ColourIdle

Next ==
    \/ RunMethod1
    \/ RunMethod2
    \/ RunMethod3
    \/ RunMethod4
    \/ RunMethod5
    \/ Rank
    \/ RunTrueBackground

Spec == Init /\ [][Next]_vars

(***************************************************************************)
(* The same batch with estimators that raise, and several reference        *)
(* colours.                                                                *)
(***************************************************************************)
BatchImages ==
    {UniformImage(4, 4, <<255, 255, 255>>), UniformImage(11, 10, <<200, 200, 200>>),
     UniformImage(2, 2, <<0, 0, 0>>)}
    \cup {SpotImage(4, 4, cc) : cc \in ColourPairs}

HumanColours == {<<255, 255, 255>>, <<100, 100, 100>>}

BatchInit ==
    /\ InputInit(BatchImages)
    /\ rng = 0
    /\ BatchIdle
    /\ RepeatIdle
    /\ ThreadsIdle
    /\ CheckIdle
    /\ WcagIdle
    /\ fails \in SUBSET (1 .. 5)
    /\ human_rgb \in HumanColours
    /\ ranking = <<>>
    /\ ColourIdle

SpecBatch == BatchInit /\ [][Next]_vars

\* C15: the ranking holds the five results in ascending order of distance to
\* the reference colour, results at equal distance in the order in which the
\* estimators ran, and results without an estimate (infinite distance) behind
\* every result with one.
C15_RankingStableAscending ==
    step = 6 =>
        /\ Len(ranking) = 5
        /\ \A m \in 1 .. 5 : \E i \in 1 .. 5 : ranking[i] = ResultsList[m]
        /\ \A i, j \in 1 .. 5 :
              i < j =>
                /\ ranking[i].distance <= ranking[j].distance
                /\ ranking[i].distance = ranking[j].distance
                      => ranking[i].method < ranking[j].method
                /\ ranking[i].rgb = None => ranking[j].rgb = None

C15_Witness ==
    /\ step = 6
    /\ \E i \in 1 .. 4 :
          /\ ranking[i].distance = ranking[i + 1].distance
          /\ ranking[i].rgb # None
          /\ ranking[i].rgb # ranking[1].rgb
    /\ ranking[5].rgb = None
    /\ ranking[5].method # 5

\* C16: every estimator of the batch is invoked and has exactly one result
\* recorded, whichever of them fail; a failing estimator gives None, and the
\* estimators after it still run.
C16_BatchSurvivesFailures ==
    /\ step \in 0 .. 6
    /\ \A m \in 1 .. 5 :
          /\ m <= step <=> results[m] # Unset
          /\ (m <= step /\ m \in fails) => results[m] = None
    /\ step = 6 =>
          /\ Len(ranking) = 5
          /\ \A m \in 1 .. 5 :
                Cardinality({i \in 1 .. 5 : ranking[i].method = m}) = 1

C16_Witness ==
    /\ step = 6
    /\ 1 \in fails
    /\ 3 \in fails
    /\ results[1] = None
    /\ results[2] # None
    /\ results[4] # None
    /\ Len(ranking) = 5

(***************************************************************************)
(* Claims about the estimators, under Spec.                                *)
(***************************************************************************)
IsUniform(img) == \A p, q \in DOMAIN img.px : img.px[p] = img.px[q]

AllForeground == \A p \in DOMAIN image.px : image.px[p] = textColor

FewBackground == Len(exclude_text_pixels(image, textColor, 50)) < 10

\* the colours that occur most often among all pixels of the image
MostFrequent(img) ==
    {c \in Distinct(AllPixels(img)) :
        \A d \in Distinct(AllPixels(img)) :
            Occurrences(AllPixels(img), d) <= Occurrences(AllPixels(img), c)}

\* C1: on an image whose pixels all have one colour B, with a text colour
\* farther than 50 from B, every estimator that has run returned exactly B.
C1_UniformImageGivesB ==
    (IsUniform(image) /\ DistSq(image.px[<<0, 0>>], textColor) > 50 * 50)
        => \A m \in 1 .. 5 : results[m] # Unset => results[m] = image.px[<<0, 0>>]

\* C2: on an image whose pixels all equal the text colour, methods 1 and 3
\* return None, and method 5 finds no core region, falls back from fine to
\* medium and from medium to coarse, and returns a colour.
C2_AllForegroundImage ==
    AllForeground =>
        /\ results[1] # Unset => results[1] = None
        /\ results[3] # Unset => results[3] = None
        /\ results[5] # Unset =>
            /\ results[5] # None
            /\ h5.core = None
            /\ h5.clean_bg = h5.medium_bg
            /\ h5.medium_bg = h5.coarse_bg
            /\ results[5] = h5.coarse_bg

C2_Witness == AllForeground /\ step = 5 /\ NumPixels(image) > 100

\* C3 as stated: with fewer than 10 pixels left after masking at threshold 50,
\* both implementations return no estimate.
C3_BothGiveNoEstimate ==
    FewBackground =>
        /\ results[1] # Unset => results[1] = None
        /\ trueBg # Unset => trueBg = None

\* C3 amended: with fewer than 10 pixels left after masking at threshold 50,
\* method1_dominant_clustering returns no estimate, while
\* calculate_true_background_luminance returns an estimate computed from all
\* pixels of the image: a most frequent colour of the whole image (each
\* channel truncated from a float).
C3_Method1NoneTrueBgFallsBack ==
    FewBackground =>
        /\ results[1] # Unset => results[1] = None
        /\ trueBg # Unset =>
            /\ trueBg # None
            /\ \E c \in MostFrequent(image) :
                   \A k \in 1 .. 3 : trueBg[k] \in {c[k] - 1, c[k]}

C3_Witness ==
    /\ FewBackground
    /\ NumPixels(image) >= 10
    /\ results[1] = None
    /\ trueBg = textColor

\* C6: the candidate method5_hierarchical returns is the first maximum of the
\* confidence scores in the order fine, medium, coarse.
C6_FirstMaximumConfidence ==
    results[5] # Unset =>
        LET scores == h5.confidence_scores
            cands == <<h5.clean_bg, h5.medium_bg, h5.coarse_bg>>
            conf(c) == calculate_confidence(c, image)
        IN  /\ h5.best_method \in 1 .. 3
            /\ results[5] = cands[h5.best_method]
            /\ \A j \in 1 .. 3 :
                  /\ ~ScoreLess(conf(results[5]), conf(cands[j]))
                  /\ j < h5.best_method =>
                        ScoreLess(conf(cands[j]), conf(cands[h5.best_method]))

C6_Witness ==
    /\ results[5] # Unset
    /\ h5.best_method = 1
    /\ h5.clean_bg # h5.coarse_bg
    /\ h5.confidence_scores[1] = h5.confidence_scores[3]

MaskThresholds == {40, 45, 50}

\* C7: the text mask covers exactly the image's positions, marks a pixel iff
\* its distance to the text colour is <= the threshold, and
\* is_background_pixel is its negation, in both files.
C7_MaskIsDistanceTest ==
    \A t \in MaskThresholds :
        LET mask == create_enhanced_text_mask(image, textColor, t)
            wmask == wcag_create_enhanced_text_mask(image, textColor, t)
        IN  /\ DOMAIN mask = Pos(image.h, image.w)
            /\ DOMAIN wmask = Pos(image.h, image.w)
            /\ \A p \in Pos(image.h, image.w) :
                  /\ mask[p] <=> DistSq(image.px[p], textColor) < t * t + 1
                  /\ wmask[p] = mask[p]
                  /\ is_background_pixel(image.px[p], textColor, t) = ~mask[p]

C7_Witness ==
    \E t \in MaskThresholds : \E p \in DOMAIN image.px :
        /\ DistSq(image.px[p], textColor) = t * t
        /\ create_enhanced_text_mask(image, textColor, t)[p]
        /\ ~is_background_pixel(image.px[p], textColor, t)

(***************************************************************************)
(* Successive calls of method4_multi_sampling in one process, with other   *)
(* users of numpy's global generator drawing from it in between.           *)
(***************************************************************************)
RepeatImages == {img \in Images : img.w <= 2 \/ img.h = 4}

RepeatUnchanged ==
    UNCHANGED <<image, textColor, edges, fpBelow, kmLowFirst, step, results, h5,
                trueBg, threads, element, ratio, verdict, rankVars, colourVars, checkVars>>

CallMethod4 ==
    /\ Len(calls4) < MaxCalls
    /\ calls4' = Append(calls4, method4_multi_sampling(image, textColor, fpBelow, rng))
    /\ rng' = Method4RngAfter(rng)
    /\ RepeatUnchanged

\* any other np.random call of the process
OtherDraw ==
    /\ rng' = RngNext(rng)
    /\ UNCHANGED calls4
    /\ RepeatUnchanged

RepeatInit ==
    /\ image \in RepeatImages
    /\ textColor \in TextColors
    /\ edges = {}
    /\ fpBelow \in BOOLEAN
    /\ kmLowFirst = TRUE
    /\ rng \in {0, 42}
    /\ BatchIdle
    /\ RepeatIdle
    /\ ThreadsIdle
    /\ CheckIdle
    /\ WcagIdle
    /\ RankIdle
    /\ ColourIdle

RepeatNext ==
    \/ CallMethod4
    \/ OtherDraw

SpecRepeat == RepeatInit /\ [][RepeatNext]_vars

\* C5: all calls of method4_multi_sampling on the same image and text colour
\* returned the same value, whatever was drawn from the generator before or
\* between them.
C5_Method4Repeatable ==
    \A i, j \in DOMAIN calls4 : calls4[i] = calls4[j]

C5_Witness ==
    /\ Len(calls4) >= 2
    /\ calls4[1] # None
    /\ ~IsUniform(image)
    /\ rng # Method4RngAfter(0)

(***************************************************************************)
(* Two estimator calls running concurrently (threads of one process) on    *)
(* the same image.  Methods 1, 2, 3 and 5 touch only their arguments and   *)
(* locals, so each is one step; method 4 seeds and draws from numpy's      *)
(* global generator, and another thread may run between any two of these   *)
(* calls.                                                                  *)
(***************************************************************************)
Threads == {1, 2}

ConcImages ==
    {img \in Images : NumPixels(img) <= 2}
    \cup {SplitImage(4, 4, 2, cc) : cc \in ColourPairs}

IdleThread == [m |-> 0, pc |-> "idle", k |-> 0, y |-> 0, pool |-> <<>>, res |-> Unset]

ConcUnchanged ==
    UNCHANGED <<image, textColor, edges, fpBelow, kmLowFirst, step, results, h5,
                trueBg, calls4, element, ratio, verdict, rankVars, colourVars, checkVars>>

\* the value of estimator m when it runs alone
AloneResult(m) ==
    CASE m = 1 -> method1_dominant_clustering(image, textColor, kmLowFirst, fpBelow)
      [] m = 2 -> method2_spatial_weighted(image, textColor, fpBelow)
      [] m = 3 -> method3_core_region(image, textColor, edges)
      [] m = 4 -> method4_multi_sampling(image, textColor, fpBelow, 0)
      [] m = 5 -> method5_hierarchical(image, textColor, edges).final_bg

\* a whole call of method 1, 2, 3 or 5
CallPure(t) ==
    /\ threads[t].pc = "idle"
    /\ \E m \in {1, 2, 3, 5} :
          threads' = [threads EXCEPT ![t] = [@ EXCEPT !.m = m, !.pc = "done",
                                                      !.res = AloneResult(m)]]
    /\ UNCHANGED rng
    /\ ConcUnchanged

\* method 4 up to the end of its grid pass
Grid(t) ==
    /\ threads[t].pc = "idle"
    /\ threads' = [threads EXCEPT ![t] =
                      [@ EXCEPT !.m = 4, !.pc = "seed",
                                !.pool = KeptSamples(image, textColor, GridPositions(image))]]
    /\ UNCHANGED rng
    /\ ConcUnchanged

\* np.random.seed(42)
Seed(t) ==
    /\ threads[t].pc = "seed"
    /\ rng' = np_random_seed(rng)
    /\ threads' = [threads EXCEPT ![t] =
                      [@ EXCEPT !.pc = IF RandomDraws > 0 THEN "drawY" ELSE "circle"]]
    /\ ConcUnchanged

\* y = np.random.randint(0, h)
DrawY(t) ==
    /\ threads[t].pc = "drawY"
    /\ rng' = RngNext(rng)
    /\ threads' = [threads EXCEPT ![t] =
                      [@ EXCEPT !.y = RandIntValue(rng', image.h), !.pc = "drawX"]]
    /\ ConcUnchanged

\* x = np.random.randint(0, w), and the background test of the pixel
DrawX(t) ==
    /\ threads[t].pc = "drawX"
    /\ rng' = RngNext(rng)
    /\ threads' = [threads EXCEPT ![t] =
          [@ EXCEPT !.pool = @ \o KeptSamples(image, textColor,
                                     <<<<threads[t].y, RandIntValue(rng', image.w)>>>>),
                    !.k = @ + 1,
                    !.pc = IF threads[t].k + 1 >= RandomDraws THEN "circle" ELSE "drawY"]]
    /\ ConcUnchanged

\* the circle pass and the median
Circle(t) ==
    /\ threads[t].pc = "circle"
    /\ threads' = [threads EXCEPT ![t] =
          [@ EXCEPT !.pc = "done",
                    !.res = Method4Result(threads[t].pool
                              \o KeptSamples(image, textColor,
                                             CirclePositions(image, fpBelow)))]]
    /\ UNCHANGED rng
    /\ ConcUnchanged

ConcInit ==
    /\ image \in ConcImages
    /\ textColor \in TextColors
    /\ edges = {}
    /\ fpBelow \in BOOLEAN
    /\ kmLowFirst = TRUE
    /\ rng = 0
    /\ BatchIdle
    /\ RepeatIdle
    /\ threads = [t \in Threads |-> IdleThread]
    /\ CheckIdle
    /\ WcagIdle
    /\ RankIdle
    /\ ColourIdle

ConcNext ==
    \E t \in Threads :
        \/ CallPure(t)
        \/ Grid(t)
        \/ Seed(t)
        \/ DrawY(t)
        \/ DrawX(t)
        \/ Circle(t)

SpecConc == ConcInit /\ [][ConcNext]_vars

\* C4: every concurrent estimator call returns the value the same call returns
\* when it runs alone.
C4_ConcurrentCallsAsAlone ==
    \A t \in Threads :
        threads[t].pc = "done" => threads[t].res = AloneResult(threads[t].m)

(***************************************************************************)
(* determine_wcag_compliance.  Font sizes are in 1/100 px and 1/400 pt,    *)
(* contrast ratios in 1/1000.                                              *)
(***************************************************************************)
\* the size taken as points without conversion
font_size_pt_unconverted(fontSize) == 4 * fontSize

\* element['fontSize'] * 0.75, in 1/400 pt
font_size_pt(fontSize) == 3 * fontSize

\* the large-text test with its own, larger sizes for Japanese text
is_large_text_japanese_sizes(is_japanese, is_bold, pt) ==
    IF is_japanese
    THEN IF is_bold THEN pt >= 22 * 400 ELSE pt >= 18 * 400
    ELSE IF is_bold THEN pt >= 18 * 400 ELSE pt >= 14 * 400

\* the large-text test: both language branches as written
is_large_text(is_japanese, is_bold, pt) ==
    IF is_japanese
    THEN IF is_bold THEN pt >= 18 * 400 \/ pt >= 22 * 400
         ELSE pt >= 14 * 400 \/ pt >= 18 * 400
    ELSE IF is_bold THEN pt >= 18 * 400 \/ pt >= 22 * 400
         ELSE pt >= 14 * 400 \/ pt >= 18 * 400

\* a strict comparison
is_compliant_strict(contrast_ratio, required_ratio) == contrast_ratio > required_ratio

\* contrast_ratio >= required_ratio
is_compliant(contrast_ratio, required_ratio) == contrast_ratio >= required_ratio

determine_wcag_compliance(el, contrast_ratio) ==
    LET pt == font_size_pt(el.fontSize)
        is_japanese == el.language = "ja"
        large == is_large_text(is_japanese, el.isBold, pt)
        required_ratio == IF large THEN 3000 ELSE 4500
    IN  [is_compliant |-> is_compliant(contrast_ratio, required_ratio),
         required_ratio |-> required_ratio,
         actual_ratio |-> contrast_ratio,
         situation |-> IF large THEN "B" ELSE "A",
         is_large_text |-> large,
         font_size_pt |-> pt]

\* 12, 16, 18.66, 18.67, 19, 23.99, 24, 24.01, 29.33, 29.34 and 32 px
FontSizes == {1200, 1600, 1866, 1867, 1900, 2399, 2400, 2401, 2933, 2934, 3200}

Languages == {"ja", "en", ""}

Ratios == {1000, 2999, 3000, 3001, 4499, 4500, 4501, 21000}

Classify ==
    /\ verdict = NoVerdict
    /\ verdict' = determine_wcag_compliance(element, ratio)
    /\ UNCHANGED <<image, textColor, edges, fpBelow, kmLowFirst, step, results, h5,
                   trueBg, rng, calls4, threads, element, ratio, rankVars, colourVars, checkVars>>

WcagInit ==
    /\ image = UniformImage(1, 1, <<255, 255, 255>>)
    /\ textColor = <<0, 0, 0>>
    /\ edges = {}
    /\ fpBelow = FALSE
    /\ kmLowFirst = TRUE
    /\ rng = 0
    /\ BatchIdle
    /\ RepeatIdle
    /\ ThreadsIdle
    /\ CheckIdle
    /\ element \in [fontSize : FontSizes, isBold : BOOLEAN, language : Languages]
    /\ ratio \in Ratios
    /\ verdict = NoVerdict
    /\ RankIdle
    /\ ColourIdle

WcagNext == Classify

SpecWcag == WcagInit /\ [][WcagNext]_vars

\* C8: font_size_pt is 0.75 * fontSize, and is_large_text holds exactly for
\* bold text of at least 18 pt and other text of at least 14 pt.
C8_LargeTextRule ==
    verdict # NoVerdict =>
        /\ 4 * verdict.font_size_pt = 3 * (4 * element.fontSize)
        /\ verdict.is_large_text <=>
              \/ element.isBold /\ 4 * verdict.font_size_pt >= 18 * 1600
              \/ ~element.isBold /\ 4 * verdict.font_size_pt >= 14 * 1600

C8_Witness ==
    /\ verdict # NoVerdict
    /\ element.fontSize = 2400
    /\ element.isBold
    /\ verdict.is_large_text
    /\ verdict.font_size_pt = 18 * 400

\* C9: required_ratio is 3.0 with situation B exactly for large text and 4.5
\* with situation A otherwise, and is_compliant is actual_ratio >= required_ratio.
C9_RequiredRatioAndVerdict ==
    verdict # NoVerdict =>
        /\ verdict.actual_ratio = ratio
        /\ verdict.is_large_text => verdict.required_ratio = 3000 /\ verdict.situation = "B"
        /\ ~verdict.is_large_text => verdict.required_ratio = 4500 /\ verdict.situation = "A"
        /\ verdict.is_compliant <=> ~(verdict.actual_ratio < verdict.required_ratio)

C9_Witness ==
    /\ verdict # NoVerdict
    /\ verdict.actual_ratio = verdict.required_ratio
    /\ verdict.is_compliant
    /\ verdict.situation = "A"

\* C10: the verdict is the one the same element gets with any other language.
C10_LanguageIndependent ==
    verdict # NoVerdict =>
        \A l \in Languages :
            verdict = determine_wcag_compliance([element EXCEPT !.language = l], ratio)

C10_Witness ==
    /\ verdict # NoVerdict
    /\ element.language = "ja"
    /\ element.isBold
    /\ verdict.font_size_pt >= 18 * 400
    /\ verdict.font_size_pt < 22 * 400
    /\ verdict.is_large_text

(***************************************************************************)
(* Colour strings, luminance and contrast ratio (wcag_contrast_checker.py) *)
(* and the text-colour parse of background_verification.py.                *)
(*                                                                         *)
(* A string is a sequence of one-character strings.  Linearised channels   *)
(* are fixed-point numbers in 1/10^4, luminances are in 1/10^6 and         *)
(* contrast ratios in 1/1000, all rounded down.                            *)
(***************************************************************************)
At(str, i) == IF i \in 1 .. Len(str) THEN str[i] ELSE ""

Digits == <<"0", "1", "2", "3", "4", "5", "6", "7", "8", "9">>

HexDigits == Digits \o <<"a", "b", "c", "d", "e", "f">>

IsDigit(c) == \E d \in 1 .. 10 : Digits[d] = c

Lower(c) ==
    CASE c = "A" -> "a" [] c = "B" -> "b" [] c = "C" -> "c"
      [] c = "D" -> "d" [] c = "E" -> "e" [] c = "F" -> "f" [] OTHER -> c

IsHexDigit(c) == \E d \in 1 .. 16 : HexDigits[d] = Lower(c)

HexValue(c) == (CHOOSE d \in 1 .. 16 : HexDigits[d] = Lower(c)) - 1

RECURSIVE SkipWhile(_, _, _)
\* the first index from i on whose character is not of the class
\* ("d" = \d, "s" = \s, "n" = [\d.])
SkipWhile(str, i, class) ==
    LET c == At(str, i)
        in_class == CASE class = "d" -> IsDigit(c)
                      [] class = "s" -> c = " "
                      [] OTHER -> IsDigit(c) \/ c = "."
    IN  IF i <= Len(str) /\ in_class THEN SkipWhile(str, i + 1, class) ELSE i

RECURSIVE IntOf(_, _, _, _)
\* int() of the decimal digits str[i .. j-1]
IntOf(str, i, j, acc) ==
    IF i >= j THEN acc
    ELSE IntOf(str, i + 1, j, 10 * acc + (CHOOSE d \in 1 .. 10 : Digits[d] = str[i]) - 1)

\* re.match(r'rgba?\((\d+),\s*(\d+),\s*(\d+)(?:,\s*[\d.]+)?\)', str): the three
\* groups as integers, or None without a match
rgb_match(str) ==
    LET p  == IF At(str, 4) = "a" THEN 5 ELSE 4
        r1 == p + 1
        r2 == SkipWhile(str, r1, "d")
        g1 == SkipWhile(str, r2 + 1, "s")
        g2 == SkipWhile(str, g1, "d")
        b1 == SkipWhile(str, g2 + 1, "s")
        b2 == SkipWhile(str, b1, "d")
        a1 == SkipWhile(str, b2 + 1, "s")
        a2 == SkipWhile(str, a1, "n")
        tail == IF At(str, b2) = ","
                THEN a2 > a1 /\ At(str, a2) = ")"
                ELSE At(str, b2) = ")"
    IN  IF /\ At(str, 1) = "r" /\ At(str, 2) = "g" /\ At(str, 3) = "b"
           /\ At(str, p) = "("
           /\ r2 > r1 /\ At(str, r2) = ","
           /\ g2 > g1 /\ At(str, g2) = ","
           /\ b2 > b1
           /\ tail
        THEN <<IntOf(str, r1, r2, 0), IntOf(str, g1, g2, 0), IntOf(str, b1, b2, 0)>>
        ELSE None

\* re.match(r'#([0-9a-fA-F]{6})', str) and the three int(.., 16)
hex_match(str) ==
    IF At(str, 1) = "#" /\ \A i \in 2 .. 7 : IsHexDigit(At(str, i))
    THEN <<16 * HexValue(str[2]) + HexValue(str[3]),
           16 * HexValue(str[4]) + HexValue(str[5]),
           16 * HexValue(str[6]) + HexValue(str[7])>>
    ELSE None

\* the r, g, b that rgb_to_luminance takes from its string
luminance_rgb(rgb_str) ==
    IF rgb_match(rgb_str) # None THEN rgb_match(rgb_str)
    ELSE IF hex_match(rgb_str) # None THEN hex_match(rgb_str)
    ELSE <<0, 0, 0>>

\* get_element_text_color, on the string the browser returned
get_element_text_color(color_str) ==
    IF rgb_match(color_str) # None THEN rgb_match(color_str) ELSE <<0, 0, 0>>

\* text_rgb of check_contrast_ratio; None: the branch that estimates the
\* background is not entered
check_text_rgb(color_str) == rgb_match(color_str)

LinScale == 10 ^ 4

FixMul(a, b) == (a * b) \div LinScale

Pow5(r) == FixMul(FixMul(FixMul(r, r), FixMul(r, r)), r)

RECURSIVE FifthRoot(_, _, _)
\* the largest r in lo .. hi with r^5 <= v (lo qualifies)
FifthRoot(v, lo, hi) ==
    IF lo >= hi THEN lo
    ELSE LET mid == (lo + hi + 1) \div 2
         IN  IF Pow5(mid) <= v THEN FifthRoot(v, mid, hi) ELSE FifthRoot(v, lo, mid - 1)

\* math.pow(x, 2.4) for 0 <= x <= 1, as x^2 times the fifth root of x^2
Pow24(x) == FixMul(FixMul(x, x), FifthRoot(FixMul(x, x), 0, LinScale))

\* gamma_correct, the inner function of rgb_to_luminance
gamma_correct(c) ==
    IF c * 100000 <= 3928 * 255
    THEN (c * 100 * LinScale) \div (255 * 1292)
    ELSE Pow24(((200 * c + 2805) * LinScale) \div 53805)

\* luminance = 0.2126 * r_linear + 0.7152 * g_linear + 0.0722 * b_linear
rgb_to_luminance(rgb_str) ==
    LET rgb == luminance_rgb(rgb_str)
    IN  (2126 * gamma_correct(rgb[1]) + 7152 * gamma_correct(rgb[2])
         + 722 * gamma_correct(rgb[3])) \div 100

srgb_to_linear(color_value) ==
    IF color_value * 100000 <= 3928 * 255
    THEN (color_value * 100 * LinScale) \div (255 * 1292)
    ELSE Pow24(((200 * color_value + 2805) * LinScale) \div 53805)

\* the red and green weights exchanged
linear_rgb_to_luminance_swapped(r_linear, g_linear, b_linear) ==
    (7152 * r_linear + 2126 * g_linear + 722 * b_linear) \div 100

linear_rgb_to_luminance(r_linear, g_linear, b_linear) ==
    (2126 * r_linear + 7152 * g_linear + 722 * b_linear) \div 100

\* the luminance calculate_true_background_luminance returns for true_bg_rgb,
\* as <<luminance>>, or None
true_bg_luminance(true_bg_rgb) ==
    IF true_bg_rgb = None THEN None
    ELSE <<linear_rgb_to_luminance(srgb_to_linear(true_bg_rgb[1]),
                                   srgb_to_linear(true_bg_rgb[2]),
                                   srgb_to_linear(true_bg_rgb[3]))>>

\* the foreground luminance always in the numerator
calculate_contrast_ratio_unordered(fg, bg) ==
    ((rgb_to_luminance(fg) + 50000) * 1000) \div (rgb_to_luminance(bg) + 50000)

\* the darker colour in the numerator
calculate_contrast_ratio_inverted(fg, bg) ==
    LET l1 == Max(rgb_to_luminance(fg), rgb_to_luminance(bg))
        l2 == Min(rgb_to_luminance(fg), rgb_to_luminance(bg))
    IN  ((l2 + 50000) * 1000) \div (l1 + 50000)

\* an offset of 0.5 for 0.05
calculate_contrast_ratio_offset(fg, bg) ==
    LET l1 == Max(rgb_to_luminance(fg), rgb_to_luminance(bg))
        l2 == Min(rgb_to_luminance(fg), rgb_to_luminance(bg))
    IN  ((l1 + 500000) * 1000) \div (l2 + 500000)

calculate_contrast_ratio(fg, bg) ==
    LET fg_luminance == rgb_to_luminance(fg)
        bg_luminance == rgb_to_luminance(bg)
        l1 == Max(fg_luminance, bg_luminance)
        l2 == Min(fg_luminance, bg_luminance)
    IN  ((l1 + 50000) * 1000) \div (l2 + 50000)

\* bg_luminance is <<luminance>> or None; so is the result
calculate_improved_contrast_ratio(fg, bg_luminance) ==
    IF bg_luminance = None THEN None
    ELSE LET fg_luminance == rgb_to_luminance(fg)
             l1 == Max(fg_luminance, bg_luminance[1])
             l2 == Min(fg_luminance, bg_luminance[1])
         IN  <<((l1 + 50000) * 1000) \div (l2 + 50000)>>

ColourStrings ==
    {<<"r", "g", "b", "(", "0", ",", " ", "0", ",", " ", "0", ")">>,
     <<"r", "g", "b", "(", "2", "5", "5", ",", "2", "5", "5", ",", "2", "5", "5", ")">>,
     <<"r", "g", "b", "a", "(", "1", "0", ",", "1", "1", ",", "2", "0", "0", ",", "0", ".", "5", ")">>,
     <<"r", "g", "b", "a", "(", "0", ",", " ", "0", ",", " ", "0", ",", " ", "0", ")">>,
     <<"r", "g", "b", "(", "1", "1", "9", ",", " ", "1", "1", "9", ",", " ", "1", "1", "9", ")">>,
     <<"#", "f", "f", "f", "f", "f", "f">>,
     <<"#", "7", "F", "8", "0", "0", "0">>,
     <<"#", "0", "0", "0", "0", "0", "0", "f", "f">>,
     <<"#", "f", "f", "f">>,
     <<"r", "e", "d">>,
     <<>>,
     <<"r", "g", "b", "(", "1", ",", "2", ",", "3">>,
     <<"h", "s", "l", "(", "0", ",", "0", ",", "5", "0", ")">>,
     <<"r", "g", "b", "(", "2", "5", "5", ",", "0", ",", "0", ")", "x">>}

ColourUnchanged ==
    UNCHANGED <<image, textColor, edges, fpBelow, kmLowFirst, step, results, h5,
                trueBg, rng, calls4, threads, element, ratio, verdict, rankVars,
                foreground_color, background_color, checkVars>>

\* calculate_contrast_ratio on the two strings
CalculateContrastRatio ==
    /\ contrast.contrast_ratio = -1
    /\ contrast' = [contrast EXCEPT
                      !.fg_luminance = rgb_to_luminance(foreground_color),
                      !.bg_luminance = rgb_to_luminance(background_color),
                      !.contrast_ratio =
                          calculate_contrast_ratio(foreground_color, background_color)]
    /\ UNCHANGED parsed
    /\ ColourUnchanged

\* calculate_improved_contrast_ratio on the first string and the luminance
\* calculate_true_background_luminance computes, here for the colour of the
\* second string, or None when it found no background
CalculateImprovedContrastRatio ==
    /\ contrast.improved_contrast_ratio = Unset
    /\ \E true_bg_rgb \in {luminance_rgb(background_color), None} :
          contrast' = [contrast EXCEPT
                         !.true_bg_luminance = true_bg_luminance(true_bg_rgb),
                         !.improved_contrast_ratio =
                             calculate_improved_contrast_ratio(foreground_color,
                                 true_bg_luminance(true_bg_rgb))]
    /\ UNCHANGED parsed
    /\ ColourUnchanged

GetElementTextColor ==
    /\ parsed.element_text_color = Unset
    /\ parsed' = [parsed EXCEPT
                    !.element_text_color = get_element_text_color(foreground_color)]
    /\ UNCHANGED contrast
    /\ ColourUnchanged

ParseTextColor ==
    /\ parsed.text_rgb = Unset
    /\ parsed' = [parsed EXCEPT !.text_rgb = check_text_rgb(foreground_color)]
    /\ UNCHANGED contrast
    /\ ColourUnchanged

ColourInit ==
    /\ image = UniformImage(1, 1, <<255, 255, 255>>)
    /\ textColor = <<0, 0, 0>>
    /\ edges = {}
    /\ fpBelow = FALSE
    /\ kmLowFirst = TRUE
    /\ rng = 0
    /\ BatchIdle
    /\ RepeatIdle
    /\ ThreadsIdle
    /\ CheckIdle
    /\ WcagIdle
    /\ RankIdle
    /\ foreground_color \in ColourStrings
    /\ background_color \in ColourStrings
    /\ contrast = NoContrast
    /\ parsed = NoParsed

ColourNext ==
    \/ CalculateContrastRatio
    \/ CalculateImprovedContrastRatio
    \/ GetElementTextColor
    \/ ParseTextColor

SpecColour == ColourInit /\ [][ColourNext]_vars

Black == <<0, 0, 0>>

White == <<255, 255, 255>>

\* C11: the contrast ratio of two colours is the one of the exchanged pair,
\* and the improved ratio is the one computed from the second string and the
\* background luminance of the first colour.
C11_ContrastSymmetric ==
    /\ contrast.contrast_ratio # -1 =>
          contrast.contrast_ratio =
              calculate_contrast_ratio(background_color, foreground_color)
    /\ (contrast.improved_contrast_ratio # Unset
        /\ contrast.improved_contrast_ratio # None) =>
          contrast.improved_contrast_ratio =
              calculate_improved_contrast_ratio(background_color,
                  true_bg_luminance(luminance_rgb(foreground_color)))

C11_Witness ==
    /\ contrast.contrast_ratio > 1000
    /\ contrast.fg_luminance < contrast.bg_luminance
    /\ contrast.improved_contrast_ratio = <<contrast.contrast_ratio>>

\* C12: every contrast ratio computed, improved or not, is at least 1.0.
C12_RatioAtLeastOne ==
    /\ contrast.contrast_ratio # -1 => contrast.contrast_ratio >= 1000
    /\ (contrast.improved_contrast_ratio # Unset
        /\ contrast.improved_contrast_ratio # None) =>
          contrast.improved_contrast_ratio[1] >= 1000

C12_Witness ==
    /\ contrast.contrast_ratio # -1
    /\ contrast.fg_luminance > contrast.bg_luminance
    /\ contrast.bg_luminance > 0
    /\ contrast.improved_contrast_ratio # Unset
    /\ contrast.improved_contrast_ratio # None
    /\ contrast.improved_contrast_ratio[1] > 1000

\* C13: the contrast ratio of black and white is 21.0 within 0.01.
C13_BlackWhiteIs21 ==
    (/\ contrast.contrast_ratio # -1
     /\ {luminance_rgb(foreground_color), luminance_rgb(background_color)}
            = {Black, White}) =>
        Abs(contrast.contrast_ratio - 21000) <= 10

C13_Witness ==
    /\ luminance_rgb(foreground_color) = Black
    /\ luminance_rgb(background_color) = White
    /\ contrast.contrast_ratio = 21000

\* the linearisation of a channel as the WCAG definition states it
WcagLinear(c) ==
    IF c * 100000 <= 3928 * 255
    THEN (c * 100 * LinScale) \div (255 * 1292)
    ELSE Pow24(((200 * c + 2805) * LinScale) \div 53805)

WcagLuminance(rgb) ==
    (2126 * WcagLinear(rgb[1]) + 7152 * WcagLinear(rgb[2])
     + 722 * WcagLinear(rgb[3])) \div 100

\* C14: the luminance computed by rgb_to_luminance and the one computed by
\* srgb_to_linear and linear_rgb_to_luminance are both 0.2126 R + 0.7152 G +
\* 0.0722 B over the linearised channels; black has 0.0 and white 1.0.
C14_RelativeLuminance ==
    /\ contrast.contrast_ratio # -1 =>
          /\ contrast.fg_luminance = WcagLuminance(luminance_rgb(foreground_color))
          /\ contrast.bg_luminance = WcagLuminance(luminance_rgb(background_color))
          /\ luminance_rgb(foreground_color) = Black => contrast.fg_luminance = 0
          /\ luminance_rgb(foreground_color) = White => contrast.fg_luminance = 10 ^ 6
    /\ (contrast.true_bg_luminance # Unset /\ contrast.true_bg_luminance # None) =>
          /\ contrast.true_bg_luminance[1]
                = WcagLuminance(luminance_rgb(background_color))
          /\ luminance_rgb(background_color) = Black
                => contrast.true_bg_luminance[1] = 0
          /\ luminance_rgb(background_color) = White
                => contrast.true_bg_luminance[1] = 10 ^ 6

C14_Witness ==
    /\ contrast.contrast_ratio # -1
    /\ luminance_rgb(foreground_color) = <<10, 11, 200>>
    /\ luminance_rgb(background_color) = <<127, 128, 0>>
    /\ contrast.fg_luminance > 0
    /\ contrast.true_bg_luminance = <<contrast.bg_luminance>>

\* C17: each of the three places that parse the text colour takes it from an
\* rgb(), rgba() or #RRGGBB string and resolves any other string to (0,0,0).
C17_ThreeFormsElseBlack ==
    LET expected ==
            IF rgb_match(foreground_color) # None THEN rgb_match(foreground_color)
            ELSE IF hex_match(foreground_color) # None THEN hex_match(foreground_color)
            ELSE Black
    IN  /\ luminance_rgb(foreground_color) = expected
        /\ parsed.element_text_color # Unset => parsed.element_text_color = expected
        /\ parsed.text_rgb # Unset => parsed.text_rgb = expected

(***************************************************************************)
(* Where method 4 samples, and how the two dominant-clustering             *)
(* implementations cluster and convert the centre.                         *)
(***************************************************************************)
SeqRange(seq) == {seq[i] : i \in DOMAIN seq}

\* rows in [h/4, 3h/4) and columns in [w/4, 3w/4), with the integer quotients
\* the code uses
InCentralHalf(img, p) ==
    /\ img.h \div 4 <= p[1] /\ p[1] < (3 * img.h) \div 4
    /\ img.w \div 4 <= p[2] /\ p[2] < (3 * img.w) \div 4

Method4Ran == step >= 4 /\ 4 \notin fails

\* C18 as claimed: every position sampled by the grid, random or circular pass
\* lies in the central half of the image.
C18_AllSamplesInCentralHalf ==
    Method4Ran =>
        \A p \in SeqRange(GridPositions(image))
                 \cup SeqRange(RandomPositions(image, np_random_seed(0)))
                 \cup SeqRange(CirclePositions(image, fpBelow)) :
            InCentralHalf(image, p)

\* C18: the grid pass samples in the central half only; the random pass
\* samples anywhere in the image; the circular pass samples inside the image,
\* at most min(h, w) // 4 rows and columns from the centre.
C18_SamplingRegions ==
    Method4Ran =>
        /\ \A p \in SeqRange(GridPositions(image)) : InCentralHalf(image, p)
        /\ \A p \in SeqRange(RandomPositions(image, np_random_seed(0))) :
              p \in DOMAIN image.px
        /\ \A p \in SeqRange(CirclePositions(image, fpBelow)) :
              /\ p \in DOMAIN image.px
              /\ Abs(p[1] - image.h \div 2) <= Min(image.h, image.w) \div 4
              /\ Abs(p[2] - image.w \div 2) <= Min(image.h, image.w) \div 4

C18_Witness ==
    /\ Method4Ran
    /\ GridPositions(image) # <<>>
    /\ \E p \in SeqRange(RandomPositions(image, np_random_seed(0))) :
          ~InCentralHalf(image, p)
    /\ \E p \in SeqRange(CirclePositions(image, fpBelow)) : ~InCentralHalf(image, p)
    /\ results[4] # None

Method1Clustered == step >= 1 /\ 1 \notin fails /\ results[1] # None

\* min(4, number of distinct colours, number of pixels); 0 (no clustering)
\* for a single colour
ClaimedClusterCount(pixels) ==
    IF Cardinality(Distinct(pixels)) = 1 THEN 0
    ELSE Min(4, Min(Cardinality(Distinct(pixels)), Len(pixels)))

\* C19 as claimed: both implementations cluster into min(4, distinct colours,
\* pixels) groups and skip the clustering when there is one colour.
C19_ClusterCountBoth ==
    /\ Method1Clustered =>
          method1_n_clusters(image, textColor)
              = ClaimedClusterCount(exclude_text_pixels(image, textColor, 50))
    /\ trueBg # Unset =>
          true_bg_n_clusters(image, textColor)
              = ClaimedClusterCount(true_bg_background_pixels(image, textColor))

\* C19: calculate_true_background_luminance clusters into min(4, distinct
\* colours, pixels) groups and skips the clustering when there is one colour;
\* method1_dominant_clustering always clusters, into min(4, pixels) groups;
\* both return the colour when there is only one.
C19_ClusterCountTrueBgOnly ==
    /\ Method1Clustered =>
          LET background_pixels == exclude_text_pixels(image, textColor, 50)
          IN  /\ method1_n_clusters(image, textColor) = Min(4, Len(background_pixels))
              /\ method1_n_clusters(image, textColor) > 0
              /\ Cardinality(Distinct(background_pixels)) = 1
                    => results[1] = background_pixels[1]
    /\ trueBg # Unset =>
          LET background_pixels == true_bg_background_pixels(image, textColor)
          IN  /\ true_bg_n_clusters(image, textColor)
                    = ClaimedClusterCount(background_pixels)
              /\ Cardinality(Distinct(background_pixels)) = 1
                    => trueBg = background_pixels[1]

C19_Witness ==
    /\ Method1Clustered
    /\ trueBg # Unset
    /\ Cardinality(Distinct(exclude_text_pixels(image, textColor, 50))) = 1
    /\ method1_n_clusters(image, textColor) = 4
    /\ true_bg_n_clusters(image, textColor) = 0
    /\ results[1] = trueBg

\* the centre of the largest cluster with each channel rounded to the nearest
\* integer, halves up
RoundedCentre(pixels, n_clusters) ==
    LET big == LargestCluster(pixels, n_clusters, kmLowFirst)
        n   == ClusterSize(pixels, big)
    IN  [k \in 1 .. 3 |-> (2 * ClusterChannelSum(pixels, big, k) + n) \div (2 * n)]

\* C20: both implementations return the centre of the largest cluster with
\* each channel rounded to the nearest integer.
C20_CentroidRoundedNearest ==
    /\ Method1Clustered =>
          results[1] = RoundedCentre(exclude_text_pixels(image, textColor, 50),
                                     method1_n_clusters(image, textColor))
    /\ (trueBg # Unset /\ true_bg_n_clusters(image, textColor) > 0) =>
          trueBg = RoundedCentre(true_bg_background_pixels(image, textColor),
                                 true_bg_n_clusters(image, textColor))

(***************************************************************************)
(* The candidates of method 5 and the estimators 2, 3 and 4.               *)
(***************************************************************************)
\* x is the k-th smallest of the values vals[1], ..., vals[n]
IsKthSmallest(vals, k, x) ==
    /\ \E i \in DOMAIN vals : vals[i] = x
    /\ Cardinality({i \in DOMAIN vals : vals[i] < x}) < k
    /\ k <= Cardinality({i \in DOMAIN vals : vals[i] <= x})

\* r is the median of vals as an integer: the middle value, or the integer
\* part of the mean of the two middle values
IsMedian(vals, r) ==
    LET n == Len(vals)
    IN  \E lo \in {vals[i] : i \in DOMAIN vals}, hi \in {vals[i] : i \in DOMAIN vals} :
            /\ IsKthSmallest(vals, (n + 1) \div 2, lo)
            /\ IsKthSmallest(vals, n \div 2 + 1, hi)
            /\ r = (lo + hi) \div 2

\* c is the per-channel median of the colours cs
IsMedianColor(cs, c) ==
    \A k \in 1 .. 3 : IsMedian([i \in DOMAIN cs |-> cs[i][k]], c[k])

\* C21: in method5_hierarchical the medium candidate is the per-channel mean
\* (its integer part) of the pixels unmasked at threshold 40 when more than
\* 100 of them remain and the coarse candidate otherwise, the fine candidate
\* is the result of method 3 or, when that is None, the medium candidate, and
\* none of the three candidates is None.
C21_CandidateLevels ==
    results[5] # Unset =>
        LET text_excluded == exclude_text_pixels(image, textColor, 40)
            n == Len(text_excluded)
            total(k) == SumSeq([i \in DOMAIN text_excluded |-> text_excluded[i][k]])
        IN  /\ h5.coarse_bg # None
            /\ h5.medium_bg # None
            /\ h5.clean_bg # None
            /\ n > 100 =>
                  \A k \in 1 .. 3 :
                      /\ n * h5.medium_bg[k] <= total(k)
                      /\ total(k) < n * (h5.medium_bg[k] + 1)
            /\ n <= 100 => h5.medium_bg = h5.coarse_bg
            /\ h5.clean_bg = IF results[3] = None THEN h5.medium_bg ELSE results[3]

C21_Witness ==
    /\ results[5] # Unset
    /\ Len(exclude_text_pixels(image, textColor, 40)) = 100
    /\ h5.medium_bg = h5.coarse_bg
    /\ h5.medium_bg # MeanColor(exclude_text_pixels(image, textColor, 40))

\* C22: each confidence score of method 5 is the number of pixels whose
\* distance to the candidate is below 30 (a pixel at distance 30 is not
\* counted) over the number of pixels, lies between 0 and 1, and the score of
\* a None candidate is 0.
C22_ConfidenceFraction ==
    results[5] # Unset =>
        LET cands == <<h5.clean_bg, h5.medium_bg, h5.coarse_bg>>
        IN  /\ \A j \in 1 .. 3 :
                  LET score == h5.confidence_scores[j]
                  IN  /\ score.den = image.h * image.w
                      /\ score.num = Cardinality({p \in DOMAIN image.px :
                              DistSq(image.px[p], cands[j]) < 900})
                      /\ 0 <= score.num
                      /\ score.num <= score.den
                      /\ score.den > 0
            /\ calculate_confidence(None, image).num = 0

C22_Witness ==
    /\ results[5] # Unset
    /\ \E p \in DOMAIN image.px :
          /\ DistSq(image.px[p], h5.clean_bg) = 900
          /\ h5.confidence_scores[1].num < h5.confidence_scores[1].den
          /\ h5.confidence_scores[1].num > 0

\* the weight C23 states for the pixel at p
ClaimedWeight(p) ==
    LET dsq == (p[1] - image.h \div 2) * (p[1] - image.h \div 2)
                 + (p[2] - image.w \div 2) * (p[2] - image.w \div 2)
        max_sq == (image.h \div 2) * (image.h \div 2)
                    + (image.w \div 2) * (image.w \div 2)
    IN  IF image.h = 1 /\ image.w = 1 THEN FixedOne ELSE ExpNeg(2 * dsq, max_sq)

C24_CoreRegionMedian ==
    results[3] # Unset =>
        LET dilated == edge_dilated(image, edges)
            core == SelectSeq(PosSeq(image),
                        LAMBDA p : /\ ~dilated[p]
                                   /\ DistSq(image.px[p], textColor) > 45 * 45)
        IN  /\ results[3] = None <=> Len(core) = 0
            /\ results[3] # None =>
                  IsMedianColor([i \in DOMAIN core |-> image.px[core[i]]], results[3])

C24_Witness ==
    /\ results[3] # Unset
    /\ results[3] # None
    /\ \E p \in DOMAIN image.px : DistSq(image.px[p], textColor) <= 45 * 45
    /\ \E p \in DOMAIN image.px :
          /\ edge_dilated(image, edges)[p]
          /\ DistSq(image.px[p], textColor) > 45 * 45

\* the positions method 4 samples, pass after pass
Method4Positions ==
    GridPositions(image) \o RandomPositions(image, np_random_seed(rng))
        \o CirclePositions(image, fpBelow)

\* C25: method4_multi_sampling pools a sample only when its distance to the
\* text colour is above 45, returns the per-channel median of the pooled
\* samples of the three passes together, a position counting once for each
\* time it is sampled, and returns None exactly when the pool is empty.
C25_PooledMedian ==
    results[4] # Unset =>
        LET kept == SelectSeq(Method4Positions,
                        LAMBDA p : DistSq(image.px[p], textColor) > 45 * 45)
        IN  /\ results[4] = None <=> Len(kept) = 0
            /\ results[4] # None =>
                  IsMedianColor([i \in DOMAIN kept |-> image.px[kept[i]]], results[4])

C25_Witness ==
    /\ results[4] # Unset
    /\ results[4] # None
    /\ \E i \in DOMAIN Method4Positions :
          DistSq(image.px[Method4Positions[i]], textColor) = 45 * 45
    /\ \E i, j \in DOMAIN Method4Positions :
          /\ i # j
          /\ Method4Positions[i] = Method4Positions[j]
          /\ DistSq(image.px[Method4Positions[i]], textColor) > 45 * 45

(***************************************************************************)
(* check_contrast_ratio and verify_background_detection as processes: the  *)
(* driver's life cycle, the loop over the text elements and the report.    *)
(* SAVE_SCREENSHOTS is False; its block has its own try / except and       *)
(* writes nothing into a result.                                           *)
(***************************************************************************)
MaxElements == 2

\* round(x, 2) of a ratio in 1/1000, in 1/100
round2(x) == (x + 5) \div 10

\* round(x, 4) of a luminance <<l>> in 1/10^6, in 1/10^4
round4(l) == IF l = None THEN None ELSE <<(l[1] + 50) \div 100>>

\* the DOM-declared ratio whatever was estimated
final_contrast_ratio_dom_only(improved_contrast_ratio, contrast_ratio) ==
    contrast_ratio

\* improved_contrast_ratio if improved_contrast_ratio is not None else
\* contrast_ratio
final_contrast_ratio(improved_contrast_ratio, contrast_ratio) ==
    IF improved_contrast_ratio # None THEN improved_contrast_ratio[1]
    ELSE contrast_ratio

\* text_rgb of a pass of the loop, or None when the branch that estimates the
\* background is not entered.  found: whether driver.find_element returned;
\* element_image: what capture_element_screenshot returned (None when it
\* failed).
loop_text_rgb(el, found, element_image) ==
    IF found /\ element_image # None THEN check_text_rgb(el.color) ELSE None

\* true_bg_rgb of a pass of the loop.  estimate_raises: whether the body of
\* calculate_true_background_luminance raises, which makes it return
\* None, None.
loop_true_bg_rgb(text_rgb, element_image, estimate_raises, lowFirst, fp) ==
    IF text_rgb = None \/ estimate_raises THEN None
    ELSE calculate_true_background_rgb(element_image, text_rgb, lowFirst, fp)

\* the result object of the element el at index i
element_result(i, el, contrast_ratio, improved_contrast_ratio, true_bg_lum, true_bg_rgb, final) ==
    [index |-> i,
     fontSize |-> el.fontSize,
     isBold |-> el.isBold,
     color |-> el.color,
     backgroundColor |-> el.backgroundColor,
     language |-> el.language,
     contrast_ratio |-> round2(contrast_ratio),
     improved_contrast_ratio |->
         IF improved_contrast_ratio # None
         THEN <<round2(improved_contrast_ratio[1])>> ELSE None,
     true_background_luminance |-> round4(true_bg_lum),
     true_background_rgb |-> true_bg_rgb,
     final_contrast_ratio |-> round2(final),
     compliance |-> determine_wcag_compliance(el, final)]

\* the report calling the page compliant when some element is
create_final_report_some_compliant(rs) ==
    LET compliant_elements == SelectSeq(rs, LAMBDA r : r.compliance.is_compliant)
        non_compliant_elements == SelectSeq(rs, LAMBDA r : ~r.compliance.is_compliant)
    IN  [total_text_elements |-> Len(rs),
         compliant_elements |-> Len(compliant_elements),
         non_compliant_elements |-> Len(non_compliant_elements),
         compliant_list |-> compliant_elements,
         non_compliant_list |-> non_compliant_elements,
         wcag_1_4_3_compliant |-> Len(compliant_elements) > 0]

\* final_report of check_contrast_ratio, from its list results
create_final_report(rs) ==
    LET compliant_elements == SelectSeq(rs, LAMBDA r : r.compliance.is_compliant)
        non_compliant_elements == SelectSeq(rs, LAMBDA r : ~r.compliance.is_compliant)
    IN  [total_text_elements |-> Len(rs),
         compliant_elements |-> Len(compliant_elements),
         non_compliant_elements |-> Len(non_compliant_elements),
         compliant_list |-> compliant_elements,
         non_compliant_list |-> non_compliant_elements,
         wcag_1_4_3_compliant |-> Len(non_compliant_elements) = 0]

\* the text elements a page may hold, 16 px and 24 px (18 pt) text:
\* rgb(72, 132, 72) on rgb(255, 255, 255), rgb(0, 0, 0) on rgba(0, 0, 0, 0),
\* #767676 on rgb(255, 255, 255), rgb(255, 255, 255) on rgb(255, 255, 255)
TextElements ==
    {[color |->
          <<"r", "g", "b", "(", "7", "2", ",", " ", "1", "3", "2", ",", " ", "7", "2", ")">>,
      backgroundColor |->
          <<"r", "g", "b", "(", "2", "5", "5", ",", " ", "2", "5", "5", ",", " ", "2", "5", "5", ")">>,
      fontSize |-> 1600, isBold |-> FALSE, language |-> "en"],
     [color |->
          <<"r", "g", "b", "(", "0", ",", " ", "0", ",", " ", "0", ")">>,
      backgroundColor |->
          <<"r", "g", "b", "a", "(", "0", ",", " ", "0", ",", " ", "0", ",", " ", "0", ")">>,
      fontSize |-> 2400, isBold |-> FALSE, language |-> "ja"],
     [color |->
          <<"#", "7", "6", "7", "6", "7", "6">>,
      backgroundColor |->
          <<"r", "g", "b", "(", "2", "5", "5", ",", " ", "2", "5", "5", ",", " ", "2", "5", "5", ")">>,
      fontSize |-> 1600, isBold |-> FALSE, language |-> "en"],
     [color |->
          <<"r", "g", "b", "(", "2", "5", "5", ",", " ", "2", "5", "5", ",", " ", "2", "5", "5", ")">>,
      backgroundColor |->
          <<"r", "g", "b", "(", "2", "5", "5", ",", " ", "2", "5", "5", ",", " ", "2", "5", "5", ")">>,
      fontSize |-> 1600, isBold |-> TRUE, language |-> "en"]}

ElementLists ==
    UNION {[1 .. n -> TextElements] : n \in 0 .. MaxElements}

\* the screenshots capture_element_screenshot may return
ElementImages ==
    {UniformImage(2, 2, <<255, 255, 255>>), UniformImage(2, 2, <<200, 200, 200>>)}

\* what can fail while an element is analysed
Failures == {"none", "lookup", "screenshot", "estimate"}

CheckUnchanged ==
    UNCHANGED <<image, textColor, edges, fpBelow, kmLowFirst, step, results, h5,
                trueBg, rng, calls4, threads, element, ratio, verdict, rankVars,
                colourVars, function>>

\* setup_driver(): tempfile.mkdtemp(), then webdriver.Chrome(...), which may
\* raise.  check_contrast_ratio calls it before its try / finally and
\* re-raises; verify_background_detection calls it inside its try / finally.
SetupDriver ==
    /\ pc = "setup_driver"
    /\ \/ /\ driver' = "running"
          /\ temp_dir' = "exists"
          /\ pc' = "get"
          /\ UNCHANGED raised
       \/ /\ temp_dir' = "exists"
          /\ raised' = "WebDriverException"
          /\ pc' = IF function = "check_contrast_ratio" THEN "done" ELSE "finally"
          /\ UNCHANGED driver
    /\ UNCHANGED <<log, text_elements, page_results, outcomes, final_report>>
    /\ CheckUnchanged

\* driver.get(url) and WebDriverWait(driver, 10).until(...): the page loads,
\* or one of the two raises
LoadPage ==
    /\ pc = "get"
    /\ \/ /\ pc' = IF function = "check_contrast_ratio"
                   THEN "get_text_elements" ELSE "capture"
          /\ UNCHANGED raised
       \/ /\ raised' = "TimeoutException"
          /\ pc' = "finally"
    /\ UNCHANGED <<driver, temp_dir, log, text_elements, page_results, outcomes,
                   final_report>>
    /\ CheckUnchanged

\* text_elements = get_text_elements(driver); its execute_script may raise
GetTextElements ==
    /\ pc = "get_text_elements"
    /\ \/ /\ \E els \in ElementLists : text_elements' = els
          /\ pc' = "loop"
          /\ UNCHANGED raised
       \/ /\ raised' = "JavascriptException"
          /\ pc' = "finally"
          /\ UNCHANGED text_elements
    /\ UNCHANGED <<driver, temp_dir, log, page_results, outcomes, final_report>>
    /\ CheckUnchanged

\* one pass of for i, element in enumerate(text_elements), ending in
\* results.append(result); each local of the pass is bound once, in the order
\* of the statements
ProcessElement ==
    /\ pc = "loop"
    /\ Len(page_results) < Len(text_elements)
    /\ \E failure \in Failures :
       \E element_image \in IF failure \in {"lookup", "screenshot"}
                            THEN {None} ELSE ElementImages :
       \E el \in {text_elements[Len(page_results) + 1]} :
       \E contrast_ratio \in {calculate_contrast_ratio(el.color, el.backgroundColor)} :
       \E text_rgb \in {loop_text_rgb(el, failure # "lookup", element_image)} :
       \E true_bg_rgb \in {loop_true_bg_rgb(text_rgb, element_image,
                                failure = "estimate", kmLowFirst, fpBelow)} :
       \E true_bg_lum \in {true_bg_luminance(true_bg_rgb)} :
       \E improved_contrast_ratio \in
              {calculate_improved_contrast_ratio(el.color, true_bg_lum)} :
       \E final \in {final_contrast_ratio(improved_contrast_ratio, contrast_ratio)} :
            /\ page_results' =
                  Append(page_results,
                         element_result(Len(page_results), el, contrast_ratio,
                                        improved_contrast_ratio, true_bg_lum,
                                        true_bg_rgb, final))
            /\ outcomes' = Append(outcomes, failure)
    /\ UNCHANGED <<pc, driver, temp_dir, log, raised, text_elements, final_report>>
    /\ CheckUnchanged

\* after the loop: the report is built and returned
Report ==
    /\ pc = "loop"
    /\ Len(page_results) = Len(text_elements)
    /\ final_report' = create_final_report(page_results)
    /\ pc' = "finally"
    /\ UNCHANGED <<driver, temp_dir, log, raised, text_elements, page_results,
                   outcomes>>
    /\ CheckUnchanged

\* image, element = capture_element_by_xpath(driver, xpath): with an image the
\* function goes on, with None it returns at once
CaptureByXpath ==
    /\ pc = "capture"
    /\ pc' \in {"methods", "finally"}
    /\ UNCHANGED <<driver, temp_dir, log, raised, text_elements, page_results,
                   outcomes, final_report>>
    /\ CheckUnchanged

\* the five estimators, the sort and return results
RunMethods ==
    /\ pc = "methods"
    /\ pc' = "finally"
    /\ UNCHANGED <<driver, temp_dir, log, raised, text_elements, page_results,
                   outcomes, final_report>>
    /\ CheckUnchanged

\* finally: driver.quit().  With the name driver unbound the statement raises
\* UnboundLocalError, which replaces the exception on its way out and skips
\* cleanup_temp_dir.
FinallyQuit ==
    /\ pc = "finally"
    /\ IF driver = "unbound"
       THEN /\ raised' = "UnboundLocalError"
            /\ pc' = "done"
            /\ UNCHANGED <<driver, log>>
       ELSE /\ driver' = "quit"
            /\ log' = Append(log, "quit")
            /\ pc' = "cleanup_temp_dir"
            /\ UNCHANGED raised
    /\ UNCHANGED <<temp_dir, text_elements, page_results, outcomes, final_report>>
    /\ CheckUnchanged

\* finally: cleanup_temp_dir(temp_dir)
CleanupTempDir ==
    /\ pc = "cleanup_temp_dir"
    /\ temp_dir' = "removed"
    /\ log' = Append(log, "cleanup")
    /\ pc' = "done"
    /\ UNCHANGED <<driver, raised, text_elements, page_results, outcomes,
                   final_report>>
    /\ CheckUnchanged

CheckInit ==
    /\ image = UniformImage(1, 1, <<255, 255, 255>>)
    /\ textColor = <<0, 0, 0>>
    /\ edges = {}
    /\ fpBelow = FALSE
    /\ kmLowFirst = TRUE
    /\ rng = 0
    /\ BatchIdle
    /\ RepeatIdle
    /\ ThreadsIdle
    /\ WcagIdle
    /\ RankIdle
    /\ ColourIdle
    /\ function \in {"check_contrast_ratio", "verify_background_detection"}
    /\ pc = "setup_driver"
    /\ driver = "unbound"
    /\ temp_dir = "absent"
    /\ log = <<>>
    /\ raised = ""
    /\ text_elements = <<>>
    /\ page_results = <<>>
    /\ outcomes = <<>>
    /\ final_report = None

CheckNext ==
    \/ SetupDriver
    \/ LoadPage
    \/ GetTextElements
    \/ ProcessElement
    \/ Report
    \/ CaptureByXpath
    \/ RunMethods
    \/ FinallyQuit
    \/ CleanupTempDir

SpecCheck == CheckInit /\ [][CheckNext]_vars

\* the interpreter goes on to the next statement as long as there is one, and
\* every browser call returns or raises
SpecCheckFair == CheckInit /\ [][CheckNext]_vars /\ WF_vars(CheckNext)

\* C26: check_contrast_ratio appends one result per text element, in order,
\* with index equal to the position, whatever failed for the element; the
\* result's final ratio is the improved ratio when a background estimate was
\* obtained and the DOM-declared ratio otherwise; a function that did not
\* raise has a result for every element.
C26_OneResultPerElement ==
    function = "check_contrast_ratio" =>
        /\ Len(page_results) <= Len(text_elements)
        /\ Len(outcomes) = Len(page_results)
        /\ (pc \in {"finally", "cleanup_temp_dir", "done"} /\ raised = "") =>
              /\ final_report # None
              /\ Len(page_results) = Len(text_elements)
        /\ \A k \in DOMAIN page_results :
              LET r == page_results[k]
                  el == text_elements[k]
                  dom == round2(calculate_contrast_ratio(el.color, el.backgroundColor))
              IN  /\ r.index = k - 1
                  /\ r.color = el.color
                  /\ r.backgroundColor = el.backgroundColor
                  /\ r.fontSize = el.fontSize
                  /\ r.contrast_ratio = dom
                  /\ outcomes[k] # "none" => r.true_background_rgb = None
                  /\ r.true_background_rgb = None => r.final_contrast_ratio = dom
                  /\ r.true_background_rgb # None =>
                        /\ r.improved_contrast_ratio # None
                        /\ r.improved_contrast_ratio =
                              <<round2(calculate_improved_contrast_ratio(el.color,
                                    true_bg_luminance(r.true_background_rgb))[1])>>
                        /\ r.final_contrast_ratio = r.improved_contrast_ratio[1]

C26_Witness ==
    /\ final_report # None
    /\ Len(page_results) = 2
    /\ outcomes[1] = "lookup"
    /\ outcomes[2] = "none"
    /\ page_results[2].true_background_rgb # None
    /\ page_results[2].final_contrast_ratio # page_results[2].contrast_ratio

\* C27: in every result record is_compliant is true exactly when the record's
\* final_contrast_ratio, the ratio rounded to two decimals, is at least
\* compliance.required_ratio.
C27_VerdictAgreesWithReportedRatio ==
    \A k \in DOMAIN page_results :
        LET r == page_results[k]
        IN  r.compliance.is_compliant
                <=> (10 * r.final_contrast_ratio >= r.compliance.required_ratio)

\* C28: the compliant and the non-compliant list of the report partition the
\* results, their lengths are the two counts and add up to
\* total_text_elements, and wcag_1_4_3_compliant is true exactly when the
\* non-compliant list is empty.
C28_ReportPartition ==
    final_report # None =>
        LET InList(l, r) == \E j \in DOMAIN l : l[j] = r
            both == final_report.compliant_list \o final_report.non_compliant_list
        IN  /\ final_report.total_text_elements = Len(page_results)
            /\ final_report.compliant_elements = Len(final_report.compliant_list)
            /\ final_report.non_compliant_elements = Len(final_report.non_compliant_list)
            /\ final_report.compliant_elements + final_report.non_compliant_elements
                  = final_report.total_text_elements
            /\ \A j \in DOMAIN both : InList(page_results, both[j])
            /\ \A k \in DOMAIN page_results :
                  /\ InList(final_report.compliant_list, page_results[k])
                        # InList(final_report.non_compliant_list, page_results[k])
                  /\ InList(final_report.compliant_list, page_results[k])
                        <=> page_results[k].compliance.is_compliant
            /\ final_report.wcag_1_4_3_compliant
                  <=> final_report.non_compliant_list = <<>>
            /\ page_results = <<>> => final_report.wcag_1_4_3_compliant

C28_Witness ==
    /\ final_report # None
    /\ final_report.compliant_elements = 1
    /\ final_report.non_compliant_elements = 1
    /\ ~final_report.wcag_1_4_3_compliant

\* a created driver is in the end quit and its directory removed, once each
\* and in that order
C29_QuitThenCleanup ==
    /\ (driver = "running") ~> (log = <<"quit", "cleanup">>)
    /\ [](log \in {<<>>, <<"quit">>, <<"quit", "cleanup">>})
    /\ [](log = <<"quit", "cleanup">> => driver = "quit" /\ temp_dir = "removed")

\* C29: on every path of check_contrast_ratio and verify_background_detection
\* a created driver is eventually quit and its temporary directory removed,
\* once each and in that order; and when the creation of the driver fails
\* the caller sees the error of the creation.
C29_DriverLifecycle ==
    /\ (driver = "running") ~> (log = <<"quit", "cleanup">>)
    /\ [](log \in {<<>>, <<"quit">>, <<"quit", "cleanup">>})
    /\ []((pc = "done" /\ driver = "unbound") => raised = "WebDriverException")

====
